---- MODULE Spec2Model ----
(***************************************************************************)
(* A model of async-hid: the device-event fan-out (macOS IOHIDManager      *)
(* watchers, Windows CfgMgr notification streams), the macOS asynchronous  *)
(* report reader and its teardown, the WinRT input receiver, and the       *)
(* Windows thread-pool wait registration.                                  *)
(*                                                                         *)
(* Each subsystem has its own specification (SpecWatch, SpecReader,        *)
(* SpecWaiter); the variables of the other subsystems stay at their        *)
(* initial values.                                                         *)
(***************************************************************************)
EXTENDS Integers, Sequences, FiniteSets, TLC

(***************************************************************************)
(* Bounds of the model.                                                    *)
(*                                                                         *)
(* QueueCap stands for the capacity the code gives every subscriber queue  *)
(* and the full-report ring (ArrayQueue::new(64), async_channel::          *)
(* bounded(64)); force_push and pop do not depend on the value, and the    *)
(* model is checked for small capacities so that overflow happens.         *)
(* EmptyCap stands for the capacity of the recycle pool                    *)
(* (ArrayQueue::new(8)).                                                   *)
(***************************************************************************)
QueueCap == 2
EmptyCap == 1
MaxEvents == 3
MaxReports == 3
BufSize == 2
MaxSock == 2
MaxEntries == 3
MaxDescLen == 3
MaxWriteLen == 3
MaxItems == 3
MaxWrites == 3
MaxReportLen == 3
MaxBufLen == 3

None == 0
\* The IOHIDDevice pointers and the device ids (registry entry ids, interface
\* paths) the OS hands out, and the names of the streams a program creates.
DevPtrs == {1, 2}
DevIds == {1, 2}
WatcherIds == {0, 1}
\* The device the modelled reader has open, and the lengths of the reports
\* it sends and of the buffers the consumer reads into.
ReaderDev == 1
ReportLens == {1, 2}

Min(a, b) == IF a < b THEN a ELSE b

\* The last n elements of s.
LastN(s, n) == SubSeq(s, Len(s) - n + 1, Len(s))

RECURSIVE CountIn(_, _)
\* How many times x occurs in the sequence s.
CountIn(s, x) ==
    IF s = <<>> THEN 0
    ELSE (IF Head(s) = x THEN 1 ELSE 0) + CountIn(Tail(s), x)

VARIABLES
    w_target,    \* the backend compiled in: "macos" or "win32"
    next_id,     \* ManagerCallbackContext.next_id
    watchers,    \* ManagerCallbackContext.watchers: the ids, in Vec order
    devices,     \* ManagerCallbackContext.devices: pointer -> DeviceId or None
    live,        \* the streams that exist (DeviceWatcher / DeviceNotificationStream)
    queues,      \* stream -> [items, waker, notified]: its queue and waker
    attached,    \* the OS: pointer -> [id, ok] of the attached device (id None: none)
    sent,        \* history: stream -> the OS occurrences reported while it exists
    received,    \* history: stream -> the events poll_next returned
    lagged,      \* history: stream -> it has been more than QueueCap events behind
    popped_at,   \* history: stream -> how many events had been sent at its first pop
    n_events     \* how many OS occurrences have been reported

watchVars == <<w_target, next_id, watchers, devices, live, queues, attached,
               sent, received, lagged, popped_at, n_events>>

VARIABLES
    r_target,         \* the backend compiled in: "macos" or "winrt"
    full_buffers,     \* AsyncReportReaderInner.full_buffers / the reader's channel
    empty_buffers,    \* AsyncReportReaderInner.empty_buffers: how many vectors it holds
    removed,          \* AsyncReportReaderInner.removed / the channel is closed
    r_waker,          \* AsyncReportReaderInner.waker holds a waker
    active_reader,    \* WinRT: the reader is in DeviceWatcherContext.active_readers
    c_pc,             \* the consumer: where its read future stands
    c_buf,            \* the consumer: the length of the buffer it reads into
    c_notified,       \* the consumer's task has been woken since its last poll began
    c_due,            \* history: a report was queued or removed was set when the poll began
    cb_pc,            \* the dispatch queue: the callback in flight, if any
    last_result,      \* what the last poll of the current read returned
    arrived,          \* history: how many reports the report callback has received
    delivered,        \* history: the reports read_input_report has returned
    n_evicted,        \* history: how many reports the ring has evicted
    removal_reported, \* history: the OS has called the removal callback / handler
    removal_done,     \* history: that callback has returned
    reads_after_removal, \* history: reads issued after removal_done (2: two or more)
    d_pc,             \* Drop for DeviceReadWriter / InputReceiver: how far it is
    cancel_fired,     \* the device's cancel handler has run on the dispatch queue
    scratch_freed,    \* ReaderState.report_buffer has been freed
    inner_freed       \* the AsyncReportReaderInner has been freed

readerVars == <<r_target, full_buffers, empty_buffers, removed, r_waker, active_reader,
                c_pc, c_buf, c_notified, c_due, cb_pc, last_result, arrived, delivered,
                n_evicted, removal_reported, removal_done, reads_after_removal,
                d_pc, cancel_fired, scratch_freed, inner_freed>>

VARIABLES
    hw_alive,         \* the HandleWaiter exists
    registration,     \* HandleWaiter.registration: "invalid" (INVALID_HANDLE_VALUE) or "valid"
    wait_obj,         \* the thread pool's wait behind the registration
    pending_delete,   \* that wait is marked for deletion when its callback returns
    event_signalled,  \* the event HandleWaiter.waitable is signalled
    complete,         \* WaitableHandleFutureInner.complete
    hw_waker,         \* WaitableHandleFutureInner.waker holds a waker
    hw_notified,      \* the consumer's task has been woken since its last poll began
    hw_inner_freed,   \* the WaitableHandleFutureInner has been freed
    f_state,          \* HandleFuture.state, "none" when no future exists
    f_pc,             \* where the poll of the future in progress stands
    wait_result,      \* what the last poll of the future returned
    panicked,         \* an expect(..) of a destructor has panicked
    returned_during_callback \* history: an unregister returned with a callback in flight

waiterVars == <<hw_alive, registration, wait_obj, pending_delete, event_signalled,
                complete, hw_waker, hw_notified, hw_inner_freed, f_state, f_pc,
                wait_result, panicked, returned_during_callback>>

VARIABLES
    io_alive,           \* the IoBuffer exists
    io_pending,         \* IoBuffer.pending
    io_buffer,          \* IoBuffer.buffer: its bytes
    io_buffer_freed,    \* IoBuffer.buffer has been freed
    io_overlapped_freed,\* IoBuffer.overlapped (OVERLAPPED and event) has been freed
    io_op,              \* the kernel's overlapped operation on the OVERLAPPED
    io_op_ok,           \* that operation completed without error
    io_n,               \* the bytes it transferred
    io_event,           \* the OVERLAPPED's event is signalled
    io_wait,            \* a thread-pool wait on the event is registered
    io_fut,             \* the future of IoBuffer::read: where it stands
    io_out_len,         \* the length of the caller's buffer
    io_result,          \* what the last read returned
    io_panicked,        \* a panic has been raised
    io_fut_dropped,     \* history: the last read future was dropped while awaiting
    io_dropped_pending, \* history: the IoBuffer was dropped with pending set
    io_drop_cancel      \* history: what CancelIoEx returned to the drop, if called

ioVars == <<io_alive, io_pending, io_buffer, io_buffer_freed, io_overlapped_freed,
            io_op, io_op_ok, io_n, io_event, io_wait, io_fut, io_out_len, io_result,
            io_panicked, io_fut_dropped, io_dropped_pending, io_drop_cancel>>

VARIABLES
    o_target,   \* the backend compiled in: "hidraw", "macos" or "winrt"
    opens       \* per open call of the program: the call, what the backend's open
                \* returned, the halves the caller holds and the OS handle

openVars == <<o_target, opens>>

VARIABLES
    m_exists,       \* the macOS backend has been created
    m_handles,      \* the IoHidManagerBackend handles (Arc clones) the program holds
    m_strong,       \* the strong count of the Arc<IoHidManagerBackendInner>
    m_next_id,      \* ManagerCallbackContext.next_id
    m_list,         \* ManagerCallbackContext.watchers: the ids, in Vec order
    m_w,            \* DeviceWatcher id -> "none", "alive", "unregistered", "dropped"
    m_cb,           \* a manager callback is in flight on the dispatch queue
    m_drop,         \* Drop for IoHidManagerBackendInner: "none", "waiting", "freed"
    m_cancel_fired, \* the manager's cancel handler has run
    m_ctx_freed,    \* the ManagerCallbackContext has been freed
    m_last_ref,     \* history: who dropped the last reference
    m_uaf           \* history: the context was used after it was freed

teardownVars == <<m_exists, m_handles, m_strong, m_next_id, m_list, m_w, m_cb, m_drop,
                  m_cancel_fired, m_ctx_freed, m_last_ref, m_uaf>>

VARIABLES
    s_target,   \* the backend whose watch stream is polled, or "none"
    s_sock,     \* hidraw: what recvfrom will return on the netlink socket, in order
    s_items,    \* macOS / WinRT: the events queued for the stream
    s_closed,   \* WinRT: the channel of the subscriber is closed
    s_chain,    \* WinRT: the half of the Chain that is polled, "first" or "second"
    s_last,     \* the outcome of the last poll of the stream
    s_polls     \* history: the outcomes the stream had so far, as a set

streamVars == <<s_target, s_sock, s_items, s_closed, s_chain, s_last, s_polls>>

VARIABLES
    q_target,   \* the backend a stale DeviceId is used on, or "none"
    q_present,  \* the device of the id: "attached", "node_gone" (hidraw: the
                \* device node is removed, the sysfs entry not yet), "gone"
    q_calls     \* history: the calls made, [op, present, os, result]

identVars == <<q_target, q_present, q_calls>>

VARIABLES
    e_target,   \* the backend that enumerates, or "none"
    e_entries,  \* the HID entries present, in the order the system lists them
    e_pc,       \* "idle", "streaming", "done", or "failed": enumerate returned Err
    e_stream,   \* the items the backend's stream has still to yield
    e_yielded   \* the Devices HidBackend::enumerate has yielded, in order

enumVars == <<e_target, e_entries, e_pc, e_stream, e_yielded>>

VARIABLES
    hd_target,      \* "hidraw": a report descriptor is scanned; "macos": the usage
                    \* pairs of the device are read; or "none"
    hd_bytes,       \* HidrawReportDescriptor.0: the bytes of the descriptor
    hd_pos,         \* UsageIterator.cursor: its position
    hd_usage_page,  \* UsageIterator.usage_page
    hd_state,       \* of the iteration: "idle", "iterating", "done", "panicked"
    hd_out,         \* the pairs usages() has yielded, in order
    hd_items,       \* history: the items next_hid_usage has processed
    hd_query,       \* get_device_info_raw / get_device_info: "none", or how the
                    \* pairs were obtained: "scanned", "unreadable", "pairs"
    hd_infos        \* the (usage_page, usage_id) of the DeviceInfos it returned

descVars == <<hd_target, hd_bytes, hd_pos, hd_usage_page, hd_state, hd_out, hd_items,
              hd_query, hd_infos>>

VARIABLES
    ue_shape,   \* how the datagram is made: frame, magic, offset, properties
    ue_bytes,   \* the bytes recvfrom delivered
    ue_state,   \* "none", "received", "parsed", "looped"
    ue_result,  \* what UEvent::parse returned
    ue_event    \* what the iteration of the watch loop did with the datagram

ueventVars == <<ue_shape, ue_bytes, ue_state, ue_result, ue_event>>

VARIABLES
    wr_state,   \* "none", "called", "returned", "panicked"
    wr_type,    \* the report type of the call: "Output" or "Feature"
    wr_buf,     \* the caller's buffer
    wr_call,    \* the arguments IOHIDDeviceSetReport was called with, <<>> before
    wr_result   \* what write_report returned

writeVars == <<wr_state, wr_type, wr_buf, wr_call, wr_result>>

VARIABLES
    tf_input,    \* history: the items the inner iterator was made of
    tf_inner,    \* the items the inner (fused) iterator has not yielded yet
    tf_current,  \* <<>> for None, else <<rest>>: the rest of the current collection
    tf_out,      \* the items next has returned, in order
    tf_state     \* "none", "iterating", "ended"

flattenVars == <<tf_input, tf_inner, tf_current, tf_out, tf_state>>

VARIABLES
    iw_pending,   \* IoBuffer.pending
    iw_op,        \* the kernel's overlapped write: "none", "inflight", "done"
    iw_op_ok,     \* that operation completed without error
    iw_started,   \* history: the operations started and not yet completed
    iw_fut,       \* the future of IoBuffer::write: where it stands
    iw_result,    \* what the last write returned
    iw_writes,    \* the calls of write so far
    iw_failed     \* history: a write has ended with the error of its completion

iowVars == <<iw_pending, iw_op, iw_op_ok, iw_started, iw_fut, iw_result, iw_writes, iw_failed>>

VARIABLES
    rr_state,   \* "none", "received", "returned", "panicked"
    rr_report,  \* the bytes of the input report taken from the channel
    rr_buf,     \* the caller's buffer
    rr_result   \* what read_input_report returned

rtreadVars == <<rr_state, rr_report, rr_buf, rr_result>>

\* The variables of the subsystems other than the named one.
notWatch == <<readerVars, waiterVars, ioVars, openVars, teardownVars, streamVars, identVars, enumVars, descVars, ueventVars, writeVars, flattenVars, iowVars, rtreadVars>>
notReader == <<watchVars, waiterVars, ioVars, openVars, teardownVars, streamVars, identVars, enumVars, descVars, ueventVars, writeVars, flattenVars, iowVars, rtreadVars>>
notWaiter == <<watchVars, readerVars, ioVars, openVars, teardownVars, streamVars, identVars, enumVars, descVars, ueventVars, writeVars, flattenVars, iowVars, rtreadVars>>
notIo == <<watchVars, readerVars, waiterVars, openVars, teardownVars, streamVars, identVars, enumVars, descVars, ueventVars, writeVars, flattenVars, iowVars, rtreadVars>>
notOpen == <<watchVars, readerVars, waiterVars, ioVars, teardownVars, streamVars, identVars, enumVars, descVars, ueventVars, writeVars, flattenVars, iowVars, rtreadVars>>
notTeardown == <<watchVars, readerVars, waiterVars, ioVars, openVars, streamVars, identVars, enumVars, descVars, ueventVars, writeVars, flattenVars, iowVars, rtreadVars>>
notStream == <<watchVars, readerVars, waiterVars, ioVars, openVars, teardownVars, identVars, enumVars, descVars, ueventVars, writeVars, flattenVars, iowVars, rtreadVars>>
notIdent == <<watchVars, readerVars, waiterVars, ioVars, openVars, teardownVars, streamVars, enumVars, descVars, ueventVars, writeVars, flattenVars, iowVars, rtreadVars>>
notEnum == <<watchVars, readerVars, waiterVars, ioVars, openVars, teardownVars, streamVars, identVars, descVars, ueventVars, writeVars, flattenVars, iowVars, rtreadVars>>
notDesc == <<watchVars, readerVars, waiterVars, ioVars, openVars, teardownVars, streamVars, identVars, enumVars, ueventVars, writeVars, flattenVars, iowVars, rtreadVars>>
notUevent == <<watchVars, readerVars, waiterVars, ioVars, openVars, teardownVars, streamVars, identVars, enumVars, descVars, writeVars, flattenVars, iowVars, rtreadVars>>
notWrite == <<watchVars, readerVars, waiterVars, ioVars, openVars, teardownVars, streamVars, identVars, enumVars, descVars, ueventVars, flattenVars, iowVars, rtreadVars>>
notFlatten == <<watchVars, readerVars, waiterVars, ioVars, openVars, teardownVars, streamVars, identVars, enumVars, descVars, ueventVars, writeVars, iowVars, rtreadVars>>
notIow == <<watchVars, readerVars, waiterVars, ioVars, openVars, teardownVars, streamVars, identVars, enumVars, descVars, ueventVars, writeVars, flattenVars, rtreadVars>>
notRtread == <<watchVars, readerVars, waiterVars, ioVars, openVars, teardownVars, streamVars, identVars, enumVars, descVars, ueventVars, writeVars, flattenVars, iowVars>>

vars == <<watchVars, readerVars, waiterVars, ioVars, openVars, teardownVars, streamVars, identVars, enumVars, descVars, ueventVars, writeVars, flattenVars, iowVars, rtreadVars>>

-----------------------------------------------------------------------------
(***************************************************************************)
(* DeviceEvent and the bounded queue.                                      *)
(***************************************************************************)
Connected(id) == [kind |-> "Connected", id |-> id]
Disconnected(id) == [kind |-> "Disconnected", id |-> id]

ArrayQueue_force_push_reject(items, x) ==
    IF Len(items) >= QueueCap
    THEN [items |-> items, old |-> <<x>>]
    ELSE [items |-> Append(items, x), old |-> <<>>]

ArrayQueue_force_push_unbounded(items, x) ==
    [items |-> Append(items, x), old |-> <<>>]

\* crossbeam ArrayQueue::force_push as both backends use it: when the queue
\* is full the oldest element is popped and returned, and the new one is
\* appended.
ArrayQueue_force_push(items, x) ==
    IF Len(items) >= QueueCap
    THEN [items |-> Append(Tail(items), x), old |-> <<Head(items)>>]
    ELSE [items |-> Append(items, x), old |-> <<>>]

\* A pop that takes the newest element instead of the oldest.
ArrayQueue_pop_newest(items) ==
    IF items = <<>> THEN [items |-> items, got |-> <<>>]
    ELSE [items |-> SubSeq(items, 1, Len(items) - 1), got |-> <<items[Len(items)]>>]

\* ArrayQueue::pop: the oldest element, if any.
ArrayQueue_pop(items) ==
    IF items = <<>>
    THEN [items |-> items, got |-> <<>>]
    ELSE [items |-> Tail(items), got |-> <<Head(items)>>]

\* AsyncQueue::new / DeviceNotificationStreamInner: an empty queue, no waker.
\* notified is the state of the task the stored waker belongs to.
AsyncQueue_new == [items |-> <<>>, waker |-> FALSE, notified |-> FALSE]

\* AsyncQueue::force_push (and the tail of the Windows callback): push, then
\* wake the stored waker, if any.
AsyncQueue_force_push(q, item) ==
    [items |-> ArrayQueue_force_push(q.items, item).items,
     waker |-> FALSE,
     notified |-> q.notified \/ q.waker]

\* AsyncQueue::poll_next / DeviceNotificationStream::poll_next: register the
\* waker, then pop: Ready(Some(event)) when got is an event, else Pending.
AsyncQueue_poll_next(q) ==
    [q |-> [items |-> ArrayQueue_pop(q.items).items, waker |-> TRUE, notified |-> FALSE],
     got |-> ArrayQueue_pop(q.items).got]

notify_watchers_unless_full(qs, ws, event) ==
    [w \in DOMAIN qs |->
        IF /\ \E i \in 1..Len(ws) : ws[i] = w
           /\ \A i \in 1..Len(ws) : Len(qs[ws[i]].items) < QueueCap
        THEN AsyncQueue_force_push(qs[w], event) ELSE qs[w]]

notify_watchers_first_only(qs, ws, event) ==
    [w \in DOMAIN qs |->
        IF ws # <<>> /\ w = Head(ws)
        THEN AsyncQueue_force_push(qs[w], event) ELSE qs[w]]

\* ManagerCallbackContext::notify_watchers: force_push the event onto the
\* queue of every registered watcher, under the watchers lock.
notify_watchers(qs, ws, event) ==
    [w \in DOMAIN qs |->
        IF \E i \in 1..Len(ws) : ws[i] = w
        THEN AsyncQueue_force_push(qs[w], event) ELSE qs[w]]

\* The event an OS occurrence stands for.
EventOf(o) == IF o.kind = "arrival" THEN Connected(o.id) ELSE Disconnected(o.id)

RECURSIVE EventsOf(_)
\* The events of the occurrences of s that carry a resolved device id.
EventsOf(s) ==
    IF s = <<>> THEN <<>>
    ELSE (IF Head(s).kind # "other" /\ Head(s).ok THEN <<EventOf(Head(s))>> ELSE <<>>)
         \o EventsOf(Tail(s))

\* History bookkeeping of one OS occurrence o reported to the streams in ws.
Reported(o, ws) ==
    /\ sent' = [w \in WatcherIds |-> IF w \in ws THEN Append(sent[w], o) ELSE sent[w]]
    /\ lagged' = [w \in WatcherIds |->
                    lagged[w] \/ (Len(EventsOf(sent'[w])) - Len(received[w]) > QueueCap)]
    /\ n_events' = n_events + 1

\* History bookkeeping of a poll of stream w that returned got.
Polled(w, got) ==
    /\ received' = [received EXCEPT ![w] = received[w] \o got]
    /\ popped_at' = [popped_at EXCEPT ![w] =
                        IF popped_at[w] = -1 /\ got # <<>>
                        THEN Len(EventsOf(sent[w])) ELSE popped_at[w]]

\* History of a stream that has just been created or dropped.
Fresh(w) ==
    /\ sent' = [sent EXCEPT ![w] = <<>>]
    /\ received' = [received EXCEPT ![w] = <<>>]
    /\ lagged' = [lagged EXCEPT ![w] = FALSE]
    /\ popped_at' = [popped_at EXCEPT ![w] = -1]

-----------------------------------------------------------------------------
(***************************************************************************)
(* macOS: IoHidManagerBackend watch streams.                               *)
(***************************************************************************)

\* Backend::watch -> DeviceWatcher::new -> register_watcher.
DeviceWatcher_new ==
    /\ w_target = "macos"
    /\ next_id \in WatcherIds
    /\ next_id' = next_id + 1
    /\ watchers' = Append(watchers, next_id)
    /\ live' = live \cup {next_id}
    /\ queues' = [queues EXCEPT ![next_id] = AsyncQueue_new]
    /\ Fresh(next_id)
    /\ UNCHANGED notWatch
    /\ UNCHANGED <<w_target, devices, attached, n_events>>

\* Drop for DeviceWatcher -> unregister_watcher: retain the other ids.
DeviceWatcher_drop(w) ==
    /\ w_target = "macos"
    /\ w \in live
    /\ watchers' = SelectSeq(watchers, LAMBDA i : i # w)
    /\ live' = live \ {w}
    /\ queues' = [queues EXCEPT ![w] = AsyncQueue_new]
    /\ Fresh(w)
    /\ UNCHANGED notWatch
    /\ UNCHANGED <<w_target, next_id, devices, attached, n_events>>

\* ManagerCallbackContext::added_callback for a device that has just arrived;
\* ok is whether get_device_id resolved its registry entry id.
added_callback(p, id, ok) ==
    /\ w_target = "macos"
    /\ n_events < MaxEvents
    /\ attached[p].id = None
    /\ \A q \in DevPtrs : attached[q].id # id
    /\ attached' = [attached EXCEPT ![p] = [id |-> id, ok |-> ok]]
    /\ Reported([kind |-> "arrival", id |-> id, ok |-> ok], live)
    /\ IF ok
       THEN /\ devices' = [devices EXCEPT ![p] = id]
            /\ queues' = notify_watchers(queues, watchers, Connected(id))
       ELSE UNCHANGED <<devices, queues>>
    /\ UNCHANGED notWatch
    /\ UNCHANGED <<w_target, next_id, watchers, live, received, popped_at>>

removed_callback_keeps_entry(p) ==
    /\ w_target = "macos"
    /\ n_events < MaxEvents
    /\ attached[p].id # None
    /\ attached' = [attached EXCEPT ![p] = [id |-> None, ok |-> FALSE]]
    /\ Reported([kind |-> "removal", id |-> attached[p].id, ok |-> attached[p].ok], live)
    /\ devices' = devices
    /\ IF devices[p] # None
       THEN queues' = notify_watchers(queues, watchers, Disconnected(devices[p]))
       ELSE UNCHANGED queues
    /\ UNCHANGED notWatch
    /\ UNCHANGED <<w_target, next_id, watchers, live, received, popped_at>>

\* ManagerCallbackContext::removed_callback: the id is looked up by pointer.
removed_callback(p) ==
    /\ w_target = "macos"
    /\ n_events < MaxEvents
    /\ attached[p].id # None
    /\ attached' = [attached EXCEPT ![p] = [id |-> None, ok |-> FALSE]]
    /\ Reported([kind |-> "removal", id |-> attached[p].id, ok |-> attached[p].ok], live)
    /\ devices' = [devices EXCEPT ![p] = None]
    /\ IF devices[p] # None
       THEN queues' = notify_watchers(queues, watchers, Disconnected(devices[p]))
       ELSE UNCHANGED queues
    /\ UNCHANGED notWatch
    /\ UNCHANGED <<w_target, next_id, watchers, live, received, popped_at>>

\* ManagerCallbackContext::removed_callback entered again for a pointer the
\* OS has already reported as removed.
removed_callback_repeated(p) ==
    /\ w_target = "macos"
    /\ attached[p].id = None
    /\ devices' = [devices EXCEPT ![p] = None]
    /\ IF devices[p] # None
       THEN queues' = notify_watchers(queues, watchers, Disconnected(devices[p]))
       ELSE UNCHANGED queues
    /\ UNCHANGED notWatch
    /\ UNCHANGED <<w_target, next_id, watchers, live, attached, sent, received,
                   lagged, popped_at, n_events>>

\* Stream for DeviceWatcher: poll_next on the watcher's queue.
DeviceWatcher_poll_next(w) ==
    /\ w_target = "macos"
    /\ w \in live
    /\ queues' = [queues EXCEPT ![w] = AsyncQueue_poll_next(queues[w]).q]
    /\ Polled(w, AsyncQueue_poll_next(queues[w]).got)
    /\ UNCHANGED notWatch
    /\ UNCHANGED <<w_target, next_id, watchers, devices, live, attached, sent,
                   lagged, n_events>>

-----------------------------------------------------------------------------
(***************************************************************************)
(* Windows: DeviceNotificationStream over CM_Register_Notification.  Every *)
(* stream owns one registration and one queue; CfgMgr calls the callback   *)
(* of each registration on its own.                                        *)
(***************************************************************************)

\* DeviceNotificationStream::new; registered is the CONFIGRET of
\* CM_Register_Notification (on failure the queue is freed again).
DeviceNotificationStream_new(w, registered) ==
    /\ w_target = "win32"
    /\ w \notin live
    /\ IF registered
       THEN /\ live' = live \cup {w}
            /\ queues' = [queues EXCEPT ![w] = AsyncQueue_new]
            /\ Fresh(w)
       ELSE UNCHANGED <<live, queues, sent, received, lagged, popped_at>>
    /\ UNCHANGED notWatch
    /\ UNCHANGED <<w_target, next_id, watchers, devices, attached, n_events>>

\* Drop for DeviceNotificationStream: unregister, then free the queue.
DeviceNotificationStream_drop(w) ==
    /\ w_target = "win32"
    /\ w \in live
    /\ live' = live \ {w}
    /\ queues' = [queues EXCEPT ![w] = AsyncQueue_new]
    /\ Fresh(w)
    /\ UNCHANGED notWatch
    /\ UNCHANGED <<w_target, next_id, watchers, devices, attached, n_events>>

\* DeviceNotificationStream::callback on the registration of stream w, for
\* the notification `action` about the interface `link`.
callback(w, action, link) ==
    /\ w_target = "win32"
    /\ w \in live
    /\ n_events < MaxEvents
    /\ Reported([kind |-> action, id |-> link, ok |-> TRUE], {w})
    /\ IF action \notin {"arrival", "removal"}
       THEN UNCHANGED queues
       ELSE queues' = [queues EXCEPT ![w] =
                AsyncQueue_force_push(queues[w],
                    IF action = "arrival" THEN Connected(link) ELSE Disconnected(link))]
    /\ UNCHANGED notWatch
    /\ UNCHANGED <<w_target, next_id, watchers, devices, live, attached, received, popped_at>>

\* Stream for DeviceNotificationStream.
DeviceNotificationStream_poll_next(w) ==
    /\ w_target = "win32"
    /\ w \in live
    /\ queues' = [queues EXCEPT ![w] = AsyncQueue_poll_next(queues[w]).q]
    /\ Polled(w, AsyncQueue_poll_next(queues[w]).got)
    /\ UNCHANGED notWatch
    /\ UNCHANGED <<w_target, next_id, watchers, devices, live, attached, sent,
                   lagged, n_events>>

\* The notifications CfgMgr delivers: arrival and removal of an interface,
\* and other actions, which the callback ignores.
Notifications ==
    [action : {"arrival", "removal"}, link : DevIds]
        \cup [action : {"other"}, link : {None}]

-----------------------------------------------------------------------------
(***************************************************************************)
(* macOS: the asynchronous report reader of one open DeviceReadWriter.     *)
(*                                                                         *)
(* The report and removal callbacks run on the serial dispatch queue, so   *)
(* at most one of them is in flight (cb_pc); the consumer polls its read   *)
(* future on another thread.  Every step below is one atomic operation of  *)
(* the code (an ArrayQueue or AtomicWaker operation, an atomic load or     *)
(* store), and the two threads interleave freely.                          *)
(*                                                                         *)
(* A report is named by its arrival number.  The OS delivers no input      *)
(* report of a device after it has reported the device's removal.          *)
(***************************************************************************)

\* AtomicWaker::wake: take the stored waker, if any, and wake its task.
AtomicWaker_wake ==
    /\ r_waker' = FALSE
    /\ c_notified' = (c_notified \/ r_waker)

\* AsyncReportReaderInner::recycle_buffer: push onto empty_buffers, dropping
\* the vector when the pool is full.
recycle_buffer(n) == IF n < EmptyCap THEN n + 1 ELSE n

\* Variants of read_on_empty that do not look at removed.
read_on_empty_always_disconnected(rm) == "Disconnected"

read_on_empty_always_pending(rm) == "Pending"

\* ReaderState::read, the arm taken when full_buffers.pop() is None.
read_on_empty(rm) == IF rm THEN "Disconnected" ELSE "Pending"

\* AsyncHidRead::read_input_report on the macOS reader: the future is
\* created (poll_fn); nothing runs until it is polled.
read_input_report(len) ==
    /\ r_target = "macos"
    /\ d_pc = "alive"
    /\ c_pc = "none"
    /\ c_pc' = "created"
    /\ c_buf' = len
    /\ last_result' = [kind |-> "none", seq |-> 0, n |-> 0]
    /\ reads_after_removal' = IF removal_done THEN Min(reads_after_removal + 1, 2)
                                              ELSE reads_after_removal
    /\ UNCHANGED <<r_target, full_buffers, empty_buffers, removed, r_waker, active_reader,
                   c_notified, c_due, cb_pc, arrived, delivered, n_evicted,
                   removal_reported, removal_done, d_pc, cancel_fired, scratch_freed,
                   inner_freed>>
    /\ UNCHANGED notReader

\* ReaderState::read, first step of a poll: inner.waker.register(cx.waker()).
read_poll_register ==
    /\ r_target = "macos"
    /\ c_pc \in {"created", "pending"}
    /\ c_pc' = "registered"
    /\ r_waker' = TRUE
    /\ c_notified' = FALSE
    /\ c_due' = (full_buffers # <<>> \/ removed)
    /\ UNCHANGED <<r_target, full_buffers, empty_buffers, removed, active_reader, c_buf,
                   cb_pc, last_result, arrived, delivered, n_evicted, removal_reported,
                   removal_done, reads_after_removal, d_pc, cancel_fired, scratch_freed,
                   inner_freed>>
    /\ UNCHANGED notReader

\* ReaderState::read, second step: full_buffers.pop(); on Some(report) copy
\* min(report.len(), buf.len()) bytes, recycle the vector and complete.
read_poll_pop ==
    /\ r_target = "macos"
    /\ c_pc = "registered"
    /\ LET r == ArrayQueue_pop(full_buffers) IN
        /\ full_buffers' = r.items
        /\ IF r.got # <<>>
           THEN /\ c_pc' = "none"
                /\ last_result' = [kind |-> "Ok", seq |-> r.got[1].seq,
                                   n |-> Min(r.got[1].len, c_buf)]
                /\ delivered' = Append(delivered, r.got[1].seq)
                /\ empty_buffers' = recycle_buffer(empty_buffers)
           ELSE /\ c_pc' = "popped_none"
                /\ UNCHANGED <<last_result, delivered, empty_buffers>>
    /\ UNCHANGED <<r_target, removed, r_waker, active_reader, c_buf, c_notified, c_due,
                   cb_pc, arrived, n_evicted, removal_reported, removal_done,
                   reads_after_removal, d_pc, cancel_fired, scratch_freed, inner_freed>>
    /\ UNCHANGED notReader

\* ReaderState::read, third step: removed.load(Relaxed) decides between
\* Ready(Err(Disconnected)) and Pending.
read_poll_load_removed ==
    /\ r_target = "macos"
    /\ c_pc = "popped_none"
    /\ last_result' = [kind |-> read_on_empty(removed), seq |-> 0, n |-> 0]
    /\ c_pc' = IF read_on_empty(removed) = "Pending" THEN "pending" ELSE "none"
    /\ UNCHANGED <<r_target, full_buffers, empty_buffers, removed, r_waker, active_reader,
                   c_buf, c_notified, c_due, cb_pc, arrived, delivered, n_evicted,
                   removal_reported, removal_done, reads_after_removal, d_pc, cancel_fired,
                   scratch_freed, inner_freed>>
    /\ UNCHANGED notReader

\* The consumer drops its read future before it has completed.
read_future_drop ==
    /\ c_pc \in {"created", "pending"}
    /\ c_pc' = "none"
    /\ UNCHANGED <<r_target, full_buffers, empty_buffers, removed, r_waker, active_reader,
                   c_buf, c_notified, c_due, cb_pc, last_result, arrived, delivered,
                   n_evicted, removal_reported, removal_done, reads_after_removal, d_pc,
                   cancel_fired, scratch_freed, inner_freed>>
    /\ UNCHANGED notReader

\* IOKit has written an input report of the given length into the scratch
\* buffer and enters AsyncReportReaderInner::hid_report_callback.
hid_report_callback_enter(len) ==
    /\ r_target = "macos"
    /\ cb_pc.at = "idle"
    /\ ~cancel_fired
    /\ ~removal_reported
    /\ arrived < MaxReports
    /\ arrived' = arrived + 1
    /\ cb_pc' = [at |-> "report_written", len |-> len]
    /\ UNCHANGED <<r_target, full_buffers, empty_buffers, removed, r_waker, active_reader,
                   c_pc, c_buf, c_notified, c_due, last_result, delivered, n_evicted,
                   removal_reported, removal_done, reads_after_removal, d_pc, cancel_fired,
                   scratch_freed, inner_freed>>
    /\ UNCHANGED notReader

\* hid_report_callback: take a vector from empty_buffers (or allocate one),
\* copy the report out of the scratch buffer, force_push it onto
\* full_buffers and recycle the vector that evicts, if any.
hid_report_callback_push ==
    /\ r_target = "macos"
    /\ cb_pc.at = "report_written"
    /\ LET taken == IF empty_buffers > 0 THEN empty_buffers - 1 ELSE 0
           r == ArrayQueue_force_push(full_buffers, [seq |-> arrived, len |-> cb_pc.len])
       IN
        /\ full_buffers' = r.items
        /\ empty_buffers' = IF r.old # <<>> THEN recycle_buffer(taken) ELSE taken
        /\ n_evicted' = n_evicted + Len(r.old)
    /\ cb_pc' = [at |-> "report_pushed", len |-> 0]
    /\ UNCHANGED <<r_target, removed, r_waker, active_reader, c_pc, c_buf, c_notified,
                   c_due, last_result, arrived, delivered, removal_reported,
                   removal_done, reads_after_removal, d_pc, cancel_fired, scratch_freed,
                   inner_freed>>
    /\ UNCHANGED notReader

\* hid_report_callback, last step: this.waker.wake().
hid_report_callback_wake ==
    /\ r_target = "macos"
    /\ cb_pc.at = "report_pushed"
    /\ AtomicWaker_wake
    /\ cb_pc' = [at |-> "idle", len |-> 0]
    /\ UNCHANGED <<r_target, full_buffers, empty_buffers, removed, active_reader, c_pc,
                   c_buf, c_due, last_result, arrived, delivered, n_evicted,
                   removal_reported, removal_done, reads_after_removal, d_pc, cancel_fired,
                   scratch_freed, inner_freed>>
    /\ UNCHANGED notReader

\* AsyncReportReaderInner::hid_removal_callback, first step:
\* removed.store(true, Relaxed).
hid_removal_callback_store ==
    /\ r_target = "macos"
    /\ cb_pc.at = "idle"
    /\ ~cancel_fired
    /\ ~removal_reported
    /\ removal_reported' = TRUE
    /\ removed' = TRUE
    /\ cb_pc' = [at |-> "removal_stored", len |-> 0]
    /\ UNCHANGED <<r_target, full_buffers, empty_buffers, r_waker, active_reader, c_pc,
                   c_buf, c_notified, c_due, last_result, arrived, delivered, n_evicted,
                   removal_done, reads_after_removal, d_pc, cancel_fired, scratch_freed,
                   inner_freed>>
    /\ UNCHANGED notReader

\* A removal callback that returns without waking the consumer.
hid_removal_callback_no_wake ==
    /\ r_target = "macos"
    /\ cb_pc.at = "removal_stored"
    /\ removal_done' = TRUE
    /\ cb_pc' = [at |-> "idle", len |-> 0]
    /\ UNCHANGED <<r_target, full_buffers, empty_buffers, removed, r_waker, c_notified,
                   active_reader, c_pc,
                   c_buf, c_due, last_result, arrived, delivered, n_evicted,
                   removal_reported, reads_after_removal, d_pc, cancel_fired, scratch_freed,
                   inner_freed>>
    /\ UNCHANGED notReader

\* hid_removal_callback, last step: this.waker.wake().
hid_removal_callback_wake ==
    /\ r_target = "macos"
    /\ cb_pc.at = "removal_stored"
    /\ AtomicWaker_wake
    /\ removal_done' = TRUE
    /\ cb_pc' = [at |-> "idle", len |-> 0]
    /\ UNCHANGED <<r_target, full_buffers, empty_buffers, removed, active_reader, c_pc,
                   c_buf, c_due, last_result, arrived, delivered, n_evicted,
                   removal_reported, reads_after_removal, d_pc, cancel_fired, scratch_freed,
                   inner_freed>>
    /\ UNCHANGED notReader

(***************************************************************************)
(* Drop for DeviceReadWriter.  The read future borrows the reader, so the  *)
(* reader is dropped only when no read future exists.                      *)
(***************************************************************************)

\* Drop, first part: set_cancel_handler, cancel(), and then once.wait().
DeviceReadWriter_drop_cancel ==
    /\ r_target = "macos"
    /\ d_pc = "alive"
    /\ c_pc = "none"
    /\ d_pc' = "waiting"
    /\ UNCHANGED <<r_target, full_buffers, empty_buffers, removed, r_waker, active_reader,
                   c_pc, c_buf, c_notified, c_due, cb_pc, last_result, arrived,
                   delivered, n_evicted, removal_reported, removal_done,
                   reads_after_removal, cancel_fired, scratch_freed, inner_freed>>
    /\ UNCHANGED notReader

\* The dispatch queue runs the cancel handler: after the callback in flight
\* has returned, and no callback of the device is called afterwards.
cancel_handler ==
    /\ r_target = "macos"
    /\ d_pc = "waiting"
    /\ cb_pc.at = "idle"
    /\ ~cancel_fired
    /\ cancel_fired' = TRUE
    /\ UNCHANGED <<r_target, full_buffers, empty_buffers, removed, r_waker, active_reader,
                   c_pc, c_buf, c_notified, c_due, cb_pc, last_result, arrived,
                   delivered, n_evicted, removal_reported, removal_done,
                   reads_after_removal, d_pc, scratch_freed, inner_freed>>
    /\ UNCHANGED notReader

\* A destructor that frees without waiting for the cancel handler.
DeviceReadWriter_drop_free_without_wait ==
    /\ r_target = "macos"
    /\ d_pc = "waiting"
    /\ scratch_freed' = TRUE
    /\ inner_freed' = TRUE
    /\ d_pc' = "freed"
    /\ UNCHANGED <<r_target, full_buffers, empty_buffers, removed, r_waker, active_reader,
                   c_pc, c_buf, c_notified, c_due, cb_pc, last_result, arrived,
                   delivered, n_evicted, removal_reported, removal_done,
                   reads_after_removal, cancel_fired>>
    /\ UNCHANGED notReader

\* Drop, second part: once.wait() has returned; drop the scratch buffer and
\* the boxed AsyncReportReaderInner.
DeviceReadWriter_drop_free ==
    /\ r_target = "macos"
    /\ d_pc = "waiting"
    /\ cancel_fired
    /\ scratch_freed' = TRUE
    /\ inner_freed' = TRUE
    /\ d_pc' = "freed"
    /\ UNCHANGED <<r_target, full_buffers, empty_buffers, removed, r_waker, active_reader,
                   c_pc, c_buf, c_notified, c_due, cb_pc, last_result, arrived,
                   delivered, n_evicted, removal_reported, removal_done,
                   reads_after_removal, cancel_fired>>
    /\ UNCHANGED notReader

\* Drop, last part: device.close().
DeviceReadWriter_drop_close ==
    /\ r_target = "macos"
    /\ d_pc = "freed"
    /\ d_pc' = "closed"
    /\ UNCHANGED <<r_target, full_buffers, empty_buffers, removed, r_waker, active_reader,
                   c_pc, c_buf, c_notified, c_due, cb_pc, last_result, arrived,
                   delivered, n_evicted, removal_reported, removal_done,
                   reads_after_removal, cancel_fired, scratch_freed, inner_freed>>
    /\ UNCHANGED notReader

-----------------------------------------------------------------------------
(***************************************************************************)
(* WinRT: the InputReceiver of one open device, ReaderDev.  Its channel is *)
(* async_channel::bounded(64): full_buffers holds the queued reports and   *)
(* removed is the channel's closed flag.  The event handlers and the       *)
(* channel operations are atomic: active_readers is behind a mutex and the *)
(* channel is linearizable.                                                *)
(***************************************************************************)

\* Sender::force_send: an error on a closed channel, else a push that
\* replaces the oldest message of a full channel.
Sender_force_send(items, closed, msg) ==
    IF closed THEN items ELSE ArrayQueue_force_push(items, msg).items

\* Receiver::recv, one poll: a queued message first, then the closed flag.
Receiver_recv(items, closed) ==
    IF items # <<>> THEN [kind |-> "Ok", items |-> Tail(items), got |-> <<Head(items)>>]
    ELSE IF closed THEN [kind |-> "Disconnected", items |-> items, got |-> <<>>]
    ELSE [kind |-> "Pending", items |-> items, got |-> <<>>]

\* The retain closure of the Removed handler: which readers are closed.
Removed_matches(rid, id) == rid = id

\* The InputReportReceived handler registered by InputReceiver::new; ok is
\* whether args and args.Report() are available.
InputReportReceived_handler(len, ok) ==
    /\ r_target = "winrt"
    /\ d_pc = "alive"
    /\ arrived < MaxReports
    /\ arrived' = arrived + 1
    /\ full_buffers' = IF ok
                       THEN Sender_force_send(full_buffers, removed,
                                              [seq |-> arrived + 1, len |-> len])
                       ELSE full_buffers
    /\ n_evicted' = n_evicted + (IF ok /\ ~removed /\ Len(full_buffers) = QueueCap
                                 THEN 1 ELSE 0)
    /\ UNCHANGED <<r_target, empty_buffers, removed, r_waker, active_reader, c_pc, c_buf,
                   c_notified, c_due, cb_pc, last_result, delivered,
                   removal_reported, removal_done, reads_after_removal, d_pc,
                   cancel_fired, scratch_freed, inner_freed>>
    /\ UNCHANGED notReader

\* The watcher's Removed handler for device id; ok is whether info and
\* info.Id() are available.  It closes and forgets the channels of the
\* readers of that device, then broadcasts Disconnected to the watchers.
Removed_handler(id, ok) ==
    /\ r_target = "winrt"
    /\ removal_reported' = (removal_reported \/ id = ReaderDev)
    /\ removal_done' = (removal_done \/ id = ReaderDev)
    /\ IF ok /\ active_reader /\ Removed_matches(ReaderDev, id)
       THEN /\ removed' = TRUE
            /\ active_reader' = FALSE
       ELSE UNCHANGED <<removed, active_reader>>
    /\ queues' = IF ok THEN notify_watchers(queues, watchers, Disconnected(id)) ELSE queues
    /\ UNCHANGED <<r_target, full_buffers, empty_buffers, r_waker, c_pc, c_buf,
                   c_notified, c_due, cb_pc, last_result, arrived, delivered, n_evicted,
                   reads_after_removal, d_pc, cancel_fired, scratch_freed, inner_freed>>
    /\ UNCHANGED <<w_target, next_id, watchers, devices, live, attached, sent,
                   received, lagged, popped_at, n_events, waiterVars,
                   ioVars, openVars, teardownVars, streamVars, identVars, enumVars, descVars, ueventVars, writeVars, flattenVars, iowVars, rtreadVars>>

\* AsyncHidRead::read_input_report on the InputReceiver: the future is
\* created; nothing runs until it is polled.
InputReceiver_read_input_report(len) ==
    /\ r_target = "winrt"
    /\ d_pc = "alive"
    /\ c_pc = "none"
    /\ c_pc' = "created"
    /\ c_buf' = len
    /\ last_result' = [kind |-> "none", seq |-> 0, n |-> 0]
    /\ reads_after_removal' = IF removal_done THEN Min(reads_after_removal + 1, 2)
                                              ELSE reads_after_removal
    /\ UNCHANGED <<r_target, full_buffers, empty_buffers, removed, r_waker, active_reader,
                   c_notified, c_due, cb_pc, arrived, delivered, n_evicted,
                   removal_reported, removal_done, d_pc, cancel_fired, scratch_freed,
                   inner_freed>>
    /\ UNCHANGED notReader

\* One poll of read_input_report: self.buffer.recv().await, a recv error
\* mapped to Disconnected, and on a message the copy into buf.
InputReceiver_poll ==
    /\ r_target = "winrt"
    /\ c_pc \in {"created", "pending"}
    /\ LET r == Receiver_recv(full_buffers, removed) IN
        /\ full_buffers' = r.items
        /\ c_pc' = IF r.kind = "Pending" THEN "pending" ELSE "none"
        /\ last_result' = IF r.kind = "Ok"
                          THEN [kind |-> "Ok", seq |-> r.got[1].seq,
                                n |-> Min(r.got[1].len, c_buf)]
                          ELSE [kind |-> r.kind, seq |-> 0, n |-> 0]
        /\ delivered' = IF r.kind = "Ok" THEN Append(delivered, r.got[1].seq)
                        ELSE delivered
    /\ UNCHANGED <<r_target, empty_buffers, removed, r_waker, active_reader, c_buf,
                   c_notified, c_due, cb_pc, arrived, n_evicted, removal_reported,
                   removal_done, reads_after_removal, d_pc, cancel_fired, scratch_freed,
                   inner_freed>>
    /\ UNCHANGED notReader

\* Drop for InputReceiver: RemoveInputReportReceived and
\* unregister_active_reader.
InputReceiver_drop ==
    /\ r_target = "winrt"
    /\ d_pc = "alive"
    /\ c_pc = "none"
    /\ d_pc' = "closed"
    /\ active_reader' = FALSE
    /\ UNCHANGED <<r_target, full_buffers, empty_buffers, removed, r_waker, c_pc, c_buf,
                   c_notified, c_due, cb_pc, last_result, arrived, delivered, n_evicted,
                   removal_reported, removal_done, reads_after_removal, cancel_fired,
                   scratch_freed, inner_freed>>
    /\ UNCHANGED notReader

-----------------------------------------------------------------------------
(***************************************************************************)
(* Windows: HandleWaiter, the thread-pool wait on an event handle, and the *)
(* HandleFuture that HandleWaiter::wait returns.                           *)
(*                                                                         *)
(* The wait callback runs on a thread of the pool; the future is polled    *)
(* and dropped on the consumer's thread.  wait_obj is the wait the thread  *)
(* pool holds for the registration: armed, in its callback (three steps),  *)
(* done (WT_EXECUTEONLYONCE: it has called back and calls no more), or     *)
(* none once it has been deleted.                                          *)
(***************************************************************************)
InCallback == {"cb_entered", "cb_stored", "cb_woken"}

\* UnregisterWaitEx(WaitHandle, CompletionEvent) as Windows documents it.
\* With INVALID_HANDLE_VALUE the call waits for the callback in flight; with
\* NULL it marks the wait for deletion and returns at once, failing with
\* ERROR_IO_PENDING when a callback is in flight.  On the handle of a wait
\* that is already deleted the outcome is not defined: stale_ok chooses it.
UnregisterWaitEx_blocks(CompletionEvent) ==
    CompletionEvent = "INVALID_HANDLE_VALUE" /\ wait_obj \in InCallback

UnregisterWaitEx(CompletionEvent, stale_ok) ==
    IF wait_obj \in InCallback
    THEN [ok |-> FALSE, wait_obj |-> wait_obj, pending_delete |-> TRUE]
    ELSE IF wait_obj = "none"
    THEN [ok |-> stale_ok, wait_obj |-> "none", pending_delete |-> FALSE]
    ELSE [ok |-> TRUE, wait_obj |-> "none", pending_delete |-> FALSE]

\* HandleWaiter::unregister: the call, and on success
\* self.registration = INVALID_HANDLE_VALUE; r is what the call returned.
HandleWaiter_unregister(r) ==
    /\ wait_obj' = r.wait_obj
    /\ pending_delete' = r.pending_delete
    /\ registration' = IF r.ok THEN "invalid" ELSE registration
    /\ returned_during_callback' = (returned_during_callback \/ r.wait_obj \in InCallback)

\* The I/O that signals the event completes.
event_signal ==
    /\ hw_alive
    /\ ~event_signalled
    /\ event_signalled' = TRUE
    /\ UNCHANGED <<hw_alive, registration, wait_obj, pending_delete, complete, hw_waker,
                   hw_notified, hw_inner_freed, f_state, f_pc, wait_result, panicked,
                   returned_during_callback>>
    /\ UNCHANGED notWaiter

\* The owner starts the next I/O on the event, which resets it.
event_reset ==
    /\ hw_alive
    /\ f_state = "none"
    /\ event_signalled
    /\ event_signalled' = FALSE
    /\ UNCHANGED <<hw_alive, registration, wait_obj, pending_delete, complete, hw_waker,
                   hw_notified, hw_inner_freed, f_state, f_pc, wait_result, panicked,
                   returned_during_callback>>
    /\ UNCHANGED notWaiter

\* HandleWaiter::wait.
HandleWaiter_wait ==
    /\ hw_alive
    /\ ~panicked
    /\ f_state = "none"
    /\ f_state' = "Uninitialized"
    /\ f_pc' = "idle"
    /\ wait_result' = "none"
    /\ UNCHANGED <<hw_alive, registration, wait_obj, pending_delete, event_signalled,
                   complete, hw_waker, hw_notified, hw_inner_freed, panicked,
                   returned_during_callback>>
    /\ UNCHANGED notWaiter

\* HandleFuture::poll, first step.  On the first poll: reset (unregister a
\* registration left over, clear complete, take the waker) and register
\* (registered is whether RegisterWaitForSingleObject succeeds); an error
\* of either ends the poll with Ready(Err).
HandleFuture_poll_begin(registered, stale_ok) ==
    /\ f_state \in {"Uninitialized", "Initialized"}
    /\ f_pc = "idle"
    /\ wait_result \in {"none", "Pending"}
    /\ ~UnregisterWaitEx_blocks("NULL")
    /\ IF f_state = "Initialized"
       THEN /\ f_pc' = "begun"
            /\ UNCHANGED <<registration, wait_obj, pending_delete, complete, hw_waker,
                           f_state, wait_result, returned_during_callback>>
       ELSE LET r == UnregisterWaitEx("NULL", stale_ok)
                left_over == registration # "invalid"
            IN
            IF left_over /\ ~r.ok
            THEN /\ HandleWaiter_unregister(r)
                 /\ wait_result' = "Err"
                 /\ UNCHANGED <<complete, hw_waker, f_state, f_pc>>
            ELSE /\ complete' = FALSE
                 /\ hw_waker' = FALSE
                 /\ returned_during_callback' = returned_during_callback
                 /\ pending_delete' = FALSE
                 /\ IF registered
                    THEN /\ registration' = "valid"
                         /\ wait_obj' = "armed"
                         /\ f_state' = "Initialized"
                         /\ f_pc' = "begun"
                         /\ UNCHANGED wait_result
                    ELSE /\ registration' = "invalid"
                         /\ wait_obj' = "none"
                         /\ wait_result' = "Err"
                         /\ UNCHANGED <<f_state, f_pc>>
    /\ hw_notified' = FALSE
    /\ UNCHANGED <<hw_alive, event_signalled, hw_inner_freed, panicked>>
    /\ UNCHANGED notWaiter

\* HandleFuture::poll, second step: inner.waker.register(cx.waker()).
HandleFuture_poll_register ==
    /\ f_pc = "begun"
    /\ f_pc' = "registered"
    /\ hw_waker' = TRUE
    /\ UNCHANGED <<hw_alive, registration, wait_obj, pending_delete, event_signalled,
                   complete, hw_notified, hw_inner_freed, f_state, wait_result, panicked,
                   returned_during_callback>>
    /\ UNCHANGED notWaiter

\* HandleFuture::poll, last step: inner.complete.load(); when it is set,
\* state = Completed and unregister()?, else Pending.
HandleFuture_poll_load(stale_ok) ==
    /\ f_pc = "registered"
    /\ ~UnregisterWaitEx_blocks("NULL")
    /\ f_pc' = "idle"
    /\ IF complete
       THEN LET r == UnregisterWaitEx("NULL", stale_ok) IN
            /\ f_state' = "Completed"
            /\ HandleWaiter_unregister(r)
            /\ wait_result' = IF r.ok THEN "Ok" ELSE "Err"
       ELSE /\ wait_result' = "Pending"
            /\ UNCHANGED <<f_state, registration, wait_obj, pending_delete,
                           returned_during_callback>>
    /\ UNCHANGED <<hw_alive, event_signalled, complete, hw_waker, hw_notified,
                   hw_inner_freed, panicked>>
    /\ UNCHANGED notWaiter

\* Drop for HandleFuture: unregister().expect(..) when the future is
\* Initialized and the waiter registered.
HandleFuture_drop(stale_ok) ==
    /\ f_state # "none"
    /\ f_pc = "idle"
    /\ ~UnregisterWaitEx_blocks("NULL")
    /\ f_state' = "none"
    /\ IF f_state = "Initialized" /\ registration # "invalid"
       THEN LET r == UnregisterWaitEx("NULL", stale_ok) IN
            /\ HandleWaiter_unregister(r)
            /\ panicked' = (panicked \/ ~r.ok)
       ELSE UNCHANGED <<registration, wait_obj, pending_delete, panicked,
                        returned_during_callback>>
    /\ UNCHANGED <<hw_alive, event_signalled, complete, hw_waker, hw_notified,
                   hw_inner_freed, f_pc, wait_result>>
    /\ UNCHANGED notWaiter

\* Drop for HandleWaiter: unregister().expect(..) when registered, then the
\* WaitableHandleFutureInner is freed; a panic of expect leaves it allocated.
HandleWaiter_drop(stale_ok) ==
    /\ hw_alive
    /\ f_state = "none"
    /\ ~UnregisterWaitEx_blocks("NULL")
    /\ hw_alive' = FALSE
    /\ IF registration # "invalid"
       THEN LET r == UnregisterWaitEx("NULL", stale_ok) IN
            /\ HandleWaiter_unregister(r)
            /\ panicked' = (panicked \/ ~r.ok)
            /\ hw_inner_freed' = r.ok
       ELSE /\ hw_inner_freed' = TRUE
            /\ UNCHANGED <<registration, wait_obj, pending_delete, panicked,
                           returned_during_callback>>
    /\ UNCHANGED <<event_signalled, complete, hw_waker, hw_notified, f_state, f_pc,
                   wait_result>>
    /\ UNCHANGED notWaiter

\* The thread pool finds the event signalled and enters callback_func.
callback_func_enter ==
    /\ wait_obj = "armed"
    /\ event_signalled
    /\ wait_obj' = "cb_entered"
    /\ UNCHANGED <<hw_alive, registration, pending_delete, event_signalled, complete,
                   hw_waker, hw_notified, hw_inner_freed, f_state, f_pc, wait_result,
                   panicked, returned_during_callback>>
    /\ UNCHANGED notWaiter

\* callback_func: inner.complete.store(true, SeqCst).
callback_func_store ==
    /\ wait_obj = "cb_entered"
    /\ wait_obj' = "cb_stored"
    /\ complete' = TRUE
    /\ UNCHANGED <<hw_alive, registration, pending_delete, event_signalled, hw_waker,
                   hw_notified, hw_inner_freed, f_state, f_pc, wait_result, panicked,
                   returned_during_callback>>
    /\ UNCHANGED notWaiter

\* callback_func: inner.waker.wake().
callback_func_wake ==
    /\ wait_obj = "cb_stored"
    /\ wait_obj' = "cb_woken"
    /\ hw_waker' = FALSE
    /\ hw_notified' = (hw_notified \/ hw_waker)
    /\ UNCHANGED <<hw_alive, registration, pending_delete, event_signalled, complete,
                   hw_inner_freed, f_state, f_pc, wait_result, panicked,
                   returned_during_callback>>
    /\ UNCHANGED notWaiter

\* callback_func returns; a wait marked for deletion is deleted now.
callback_func_return ==
    /\ wait_obj = "cb_woken"
    /\ wait_obj' = IF pending_delete THEN "none" ELSE "done"
    /\ pending_delete' = FALSE
    /\ UNCHANGED <<hw_alive, registration, event_signalled, complete, hw_waker,
                   hw_notified, hw_inner_freed, f_state, f_pc, wait_result, panicked,
                   returned_during_callback>>
    /\ UNCHANGED notWaiter

-----------------------------------------------------------------------------
(***************************************************************************)
(* Windows: IoBuffer<Readable>, one overlapped read at a time on a file    *)
(* handle.  io_op is the kernel's side of the operation: "none", "inflight"*)
(* (ReadFile returned ERROR_IO_PENDING), "cancelling" (CancelIoEx has      *)
(* requested its cancellation; it has not completed yet) or "done" (it has *)
(* completed: the kernel has written the buffer and the OVERLAPPED and set *)
(* the event).  The kernel completes an operation on its own.              *)
(***************************************************************************)

\* A byte is 0x00 or not.
Bytes == {0, 1}

RECURSIVE SeqsOf(_, _)
\* The sequences of length n over S.
SeqsOf(S, n) ==
    IF n = 0 THEN {<<>>}
    ELSE {Append(s, x) : s \in SeqsOf(S, n - 1), x \in S}

InFlight == {"inflight", "cancelling"}

\* What CancelIoEx can return for the operation: success when it found the
\* operation and requested its cancellation (the OVERLAPPED must stay valid
\* until the operation completes), ERROR_NOT_FOUND when there is none in
\* flight, or another error.
CancelResults(op) ==
    (IF op \in InFlight THEN {"Ok"} ELSE {"NOT_FOUND"}) \cup {"Other"}

\* IoBuffer::cancel_io: Ok on success and on ERROR_NOT_FOUND.
cancel_io(res) == res \in {"Ok", "NOT_FOUND"}

\* The operation after CancelIoEx returned res.
CancelIoEx(op, res) == IF res = "Ok" THEN "cancelling" ELSE op

\* IoBuffer::read, the arm of a completed operation of size bytes: the
\* report without a leading 0x00, cut to the caller's m bytes.
\* data[0] of an empty slice panics.
IoBuffer_read_complete(buffer, size, m) ==
    LET data == SubSeq(buffer, 1, size) IN
    IF Len(data) = 0 THEN [kind |-> "Panic", n |-> 0, out |-> <<>>]
    ELSE LET payload == IF data[1] = 0 THEN Tail(data) ELSE data
             copy_len == Min(Len(payload), m)
         IN [kind |-> "Ok", n |-> copy_len, out |-> SubSeq(payload, 1, copy_len)]

\* IoBuffer::read is called with a buffer of m bytes: the future exists and
\* has not been polled.
IoBuffer_read(m) ==
    /\ io_alive
    /\ ~io_panicked
    /\ io_fut = "none"
    /\ io_fut' = "created"
    /\ io_out_len' = m
    /\ io_result' = [kind |-> "none", n |-> 0, out |-> <<>>]
    /\ io_fut_dropped' = FALSE
    /\ UNCHANGED <<io_alive, io_pending, io_buffer, io_buffer_freed, io_overlapped_freed,
                   io_op, io_op_ok, io_n, io_event, io_wait, io_panicked,
                   io_dropped_pending, io_drop_cancel>>
    /\ UNCHANGED notIo

\* read, pending = false: start_read()?.  ReadFile returns Ok (the read of
\* n bytes has completed at once), ERROR_IO_PENDING or another error; on
\* another error start_io calls cancel_io and panics if that fails.
IoBuffer_start_read(rf, n, bytes, res) ==
    /\ io_fut \in {"created", "running"}
    /\ ~io_pending
    /\ res \in CancelResults("none")
    /\ IF rf = "Ok"
       THEN /\ io_pending' = TRUE
            /\ io_op' = "done"
            /\ io_op_ok' = TRUE
            /\ io_n' = n
            /\ io_buffer' = bytes \o SubSeq(io_buffer, n + 1, BufSize)
            /\ io_event' = TRUE
            /\ io_fut' = "running"
            /\ UNCHANGED <<io_result, io_panicked>>
       ELSE IF rf = "IO_PENDING"
       THEN /\ io_pending' = TRUE
            /\ io_op' = "inflight"
            /\ io_event' = FALSE
            /\ io_fut' = "running"
            /\ UNCHANGED <<io_op_ok, io_n, io_buffer, io_result, io_panicked>>
       ELSE /\ io_pending' = ~cancel_io(res)
            /\ io_panicked' = ~cancel_io(res)
            /\ io_op' = "none"
            /\ io_result' = IF cancel_io(res) THEN [kind |-> "Err", n |-> 0, out |-> <<>>]
                            ELSE [kind |-> "PanicCancel", n |-> 0, out |-> <<>>]
            /\ io_fut' = "none"
            /\ UNCHANGED <<io_op_ok, io_n, io_buffer, io_event>>
    /\ UNCHANGED <<io_alive, io_buffer_freed, io_overlapped_freed, io_wait, io_out_len,
                   io_fut_dropped, io_dropped_pending, io_drop_cancel>>
    /\ UNCHANGED notIo

\* read, pending = true: get_result()?.  GetOverlappedResult gives the
\* size of a completed operation, ERROR_IO_INCOMPLETE (the future then
\* awaits wait_for_completion, whose first poll registers the wait) or
\* another error, which ends the read with pending left set.
IoBuffer_get_result ==
    /\ io_fut \in {"created", "running"}
    /\ io_pending
    /\ IF io_op \in InFlight
       THEN /\ io_fut' = "awaiting"
            /\ io_wait' = TRUE
            /\ UNCHANGED <<io_pending, io_result, io_panicked>>
       ELSE IF io_op = "done" /\ io_op_ok
       THEN LET r == IoBuffer_read_complete(io_buffer, io_n, io_out_len) IN
            /\ io_result' = r
            /\ io_pending' = (r.kind = "Panic")
            /\ io_panicked' = (r.kind = "Panic")
            /\ io_fut' = "none"
            /\ UNCHANGED io_wait
       ELSE /\ io_result' = [kind |-> "Err", n |-> 0, out |-> <<>>]
            /\ io_fut' = "none"
            /\ UNCHANGED <<io_pending, io_wait, io_panicked>>
    /\ UNCHANGED <<io_alive, io_buffer, io_buffer_freed, io_overlapped_freed, io_op,
                   io_op_ok, io_n, io_event, io_out_len, io_fut_dropped,
                   io_dropped_pending, io_drop_cancel>>
    /\ UNCHANGED notIo

\* The event is signalled and the wait's future completes: read goes round
\* its loop again, or ends with the error of the wait (ok is false).
wait_for_completion(ok) ==
    /\ io_fut = "awaiting"
    /\ io_event
    /\ io_event' = FALSE
    /\ io_wait' = FALSE
    /\ IF ok
       THEN /\ io_fut' = "running"
            /\ UNCHANGED io_result
       ELSE /\ io_fut' = "none"
            /\ io_result' = [kind |-> "Err", n |-> 0, out |-> <<>>]
    /\ UNCHANGED <<io_alive, io_pending, io_buffer, io_buffer_freed, io_overlapped_freed,
                   io_op, io_op_ok, io_n, io_out_len, io_panicked, io_fut_dropped,
                   io_dropped_pending, io_drop_cancel>>
    /\ UNCHANGED notIo

\* The caller drops the read future where it is suspended (or before its
\* first poll): the HandleFuture in it unregisters its wait.  Nothing else
\* of read runs on a drop: pending and the operation stay as they are.
IoBuffer_read_future_drop ==
    /\ io_fut \in {"created", "awaiting"}
    /\ io_fut' = "none"
    /\ io_wait' = FALSE
    /\ io_fut_dropped' = (io_fut = "awaiting")
    /\ UNCHANGED <<io_alive, io_pending, io_buffer, io_buffer_freed, io_overlapped_freed,
                   io_op, io_op_ok, io_n, io_event, io_out_len, io_result, io_panicked,
                   io_dropped_pending, io_drop_cancel>>
    /\ UNCHANGED notIo

\* The kernel completes the operation: n bytes written to the buffer (ok),
\* or an error such as ERROR_OPERATION_ABORTED; it writes the OVERLAPPED
\* and sets the event.
kernel_complete(n, bytes, ok) ==
    /\ io_op \in InFlight
    /\ io_op' = "done"
    /\ io_op_ok' = ok
    /\ io_n' = IF ok THEN n ELSE 0
    /\ io_buffer' = IF ok THEN bytes \o SubSeq(io_buffer, n + 1, BufSize) ELSE io_buffer
    /\ io_event' = TRUE
    /\ UNCHANGED <<io_alive, io_pending, io_buffer_freed, io_overlapped_freed, io_wait,
                   io_fut, io_out_len, io_result, io_panicked, io_fut_dropped,
                   io_dropped_pending, io_drop_cancel>>
    /\ UNCHANGED notIo

\* Drop for IoBuffer: with pending set, cancel_io; on its error a panic
\* (buffer and overlapped stay allocated), else both are freed.  With
\* pending clear the destructor does nothing.
IoBuffer_drop(res) ==
    /\ io_alive
    /\ io_fut = "none"
    /\ res \in CancelResults(io_op)
    /\ io_alive' = FALSE
    /\ io_dropped_pending' = io_pending
    /\ IF io_pending
       THEN /\ io_drop_cancel' = res
            /\ io_op' = CancelIoEx(io_op, res)
            /\ io_panicked' = (io_panicked \/ ~cancel_io(res))
            /\ io_buffer_freed' = cancel_io(res)
            /\ io_overlapped_freed' = cancel_io(res)
       ELSE UNCHANGED <<io_drop_cancel, io_op, io_panicked, io_buffer_freed,
                        io_overlapped_freed>>
    /\ UNCHANGED <<io_pending, io_buffer, io_op_ok, io_n, io_event, io_wait, io_fut,
                   io_out_len, io_result, io_fut_dropped>>
    /\ UNCHANGED notIo

-----------------------------------------------------------------------------
(***************************************************************************)
(* Opening a device: Device::open_readable / open_writeable / open over    *)
(* the backend's open(id, read, write), and the reader and writer halves   *)
(* that share the OS handle through a strong reference count               *)
(* (Arc<AsyncFd<OwnedFd>>, Arc<DeviceReadWriter>, the WinRT HidDevice).    *)
(***************************************************************************)

\* The open calls a program makes.
OpenIds == {1, 2}

OpenCalls == {"open_readable", "open_writeable", "open"}

\* A variant in which open_writeable asks for neither access.
facade_flags_writeable_neither(call) ==
    [read |-> call \in {"open_readable", "open"}, write |-> call = "open"]

\* The (read, write) a facade call passes to the backend's open.
facade_flags(call) ==
    [read |-> call \in {"open_readable", "open"},
     write |-> call \in {"open_writeable", "open"}]

\* The halves a facade call unwraps.
facade_unwraps(call) ==
    [r |-> call \in {"open_readable", "open"}, w |-> call \in {"open_writeable", "open"}]

\* The references on the handle that the backend's open leaves when it
\* returns Ok.
\* hidraw: Arc::new, one clone per half, the local dropped on return.
\* macOS: Arc::new, rw.clone() kept if read, rw kept if write.
\* WinRT: device, device.clone() in the InputReceiver if read, device kept
\* as the writer if read.
open_strong_count(t, read, write) ==
    IF t = "hidraw"
    THEN 1 + (IF read THEN 1 ELSE 0) + (IF write THEN 1 ELSE 0) - 1
    ELSE IF t = "macos"
    THEN 1 + 1 - (IF read THEN 0 ELSE 1) - (IF write THEN 0 ELSE 1)
    ELSE 1 + (IF read THEN 1 ELSE 0) - (IF read THEN 0 ELSE 1)

\* The backend's open(id, read, write); os_ok is whether the OS opens the
\* device.  ret is Ok, Err or Panic; r and w are whether a reader and a
\* writer half are returned.
Backend_open(t, read, write, os_ok) ==
    IF t = "winrt" /\ ~read /\ ~write
    THEN [ret |-> "Panic", r |-> FALSE, w |-> FALSE, strong |-> 0]
    ELSE IF ~os_ok
    THEN [ret |-> "Err", r |-> FALSE, w |-> FALSE, strong |-> 0]
    ELSE [ret |-> "Ok",
          r |-> read,
          w |-> IF t = "winrt" THEN read ELSE write,
          strong |-> open_strong_count(t, read, write)]

\* A variant in which every drop of a reference closes the handle.
Arc_drop_closes_always(o, k) ==
    [o EXCEPT !.strong = o.strong - k,
              !.handle = IF k > 0 /\ o.handle = "open" THEN "closed" ELSE o.handle,
              !.closes = IF k > 0 THEN Min(o.closes + 1, 2) ELSE o.closes]

\* Dropping k references of the handle of o: the drop that takes the count
\* to zero runs the destructor, which closes the handle.
Arc_drop(o, k) ==
    [o EXCEPT !.strong = o.strong - k,
              !.handle = IF k > 0 /\ o.strong - k = 0 /\ o.handle = "open"
                         THEN "closed" ELSE o.handle,
              !.closes = IF k > 0 /\ o.strong - k = 0
                         THEN Min(o.closes + 1, 2) ELSE o.closes]

NoOpen ==
    [call |-> "none", read |-> FALSE, write |-> FALSE, ret |-> "none",
     got_r |-> FALSE, got_w |-> FALSE, result |-> "none", reader |-> FALSE,
     writer |-> FALSE, strong |-> 0, handle |-> "none", closes |-> 0]

\* Device::open_readable / open_writeable / open: the backend's open, `?`,
\* and the unwrap of the halves the call promises; a half the call does not
\* take, and every half when an unwrap panics, is dropped.
Device_open_call(h, call, os_ok) ==
    /\ opens[h].call = "none"
    /\ LET f == facade_flags(call)
           b == Backend_open(o_target, f.read, f.write, os_ok)
           u == facade_unwraps(call)
           panics == b.ret = "Panic" \/ (b.ret = "Ok" /\ ((u.r /\ ~b.r) \/ (u.w /\ ~b.w)))
           keep_r == b.ret = "Ok" /\ ~panics /\ u.r
           keep_w == b.ret = "Ok" /\ ~panics /\ u.w
           returned == [NoOpen EXCEPT !.call = call, !.read = f.read, !.write = f.write,
                                      !.ret = b.ret, !.got_r = b.r, !.got_w = b.w,
                                      !.strong = b.strong,
                                      !.handle = IF b.ret = "Ok" THEN "open" ELSE "none"]
           given_up == (IF b.r /\ ~keep_r THEN 1 ELSE 0) + (IF b.w /\ ~keep_w THEN 1 ELSE 0)
           after == IF b.ret = "Ok" /\ b.strong = 0
                    THEN [returned EXCEPT !.handle = "closed", !.closes = 1]
                    ELSE Arc_drop(returned, given_up)
       IN opens' = [opens EXCEPT ![h] =
                       [after EXCEPT !.result = IF panics THEN "Panic" ELSE b.ret,
                                     !.reader = keep_r, !.writer = keep_w]]
    /\ UNCHANGED o_target
    /\ UNCHANGED notOpen

\* The caller drops its DeviceReader.
DeviceReader_drop(h) ==
    /\ opens[h].reader
    /\ opens' = [opens EXCEPT ![h] = [Arc_drop(opens[h], 1) EXCEPT !.reader = FALSE]]
    /\ UNCHANGED o_target
    /\ UNCHANGED notOpen

\* The caller drops its DeviceWriter.
DeviceWriter_drop(h) ==
    /\ opens[h].writer
    /\ opens' = [opens EXCEPT ![h] = [Arc_drop(opens[h], 1) EXCEPT !.writer = FALSE]]
    /\ UNCHANGED o_target
    /\ UNCHANGED notOpen

-----------------------------------------------------------------------------
(***************************************************************************)
(* macOS: the lifetime of the manager.  IoHidManagerBackend is an          *)
(* Arc<IoHidManagerBackendInner>; every DeviceWatcher holds a clone.  The  *)
(* drop of the last reference runs Drop for IoHidManagerBackendInner on    *)
(* the dropping thread, which cancels the manager, waits for the cancel    *)
(* handler and frees the callback context.  The manager's callbacks run on *)
(* the serial dispatch queue and use the context.                          *)
(***************************************************************************)

\* The backend handles a program can hold and the watchers it can create.
BackendHandles == {1, 2}
ManagerWatchers == {0, 1}

\* Dropping one reference: the count, and whether the destructor of the
\* inner value runs.
Arc_release(strong) == [strong |-> strong - 1, destroy |-> strong = 1]

\* ManagerCallbackContext::unregister_watcher: retain the other ids.
RECURSIVE unregister_watcher(_, _)
unregister_watcher(list, id) ==
    IF list = <<>> THEN <<>>
    ELSE (IF Head(list) # id THEN <<Head(list)>> ELSE <<>>)
             \o unregister_watcher(Tail(list), id)

\* IoHidManagerBackend::clone.
IoHidManagerBackend_clone(b) ==
    /\ m_exists
    /\ m_handles # {}
    /\ b \in BackendHandles \ m_handles
    /\ m_handles' = m_handles \cup {b}
    /\ m_strong' = m_strong + 1
    /\ UNCHANGED <<m_exists, m_next_id, m_list, m_w, m_cb, m_drop, m_cancel_fired,
                   m_ctx_freed, m_last_ref, m_uaf>>
    /\ UNCHANGED notTeardown

\* The program drops a backend handle.
IoHidManagerBackend_drop(b) ==
    /\ b \in m_handles
    /\ m_handles' = m_handles \ {b}
    /\ m_strong' = Arc_release(m_strong).strong
    /\ m_drop' = IF Arc_release(m_strong).destroy THEN "waiting" ELSE m_drop
    /\ m_last_ref' = IF Arc_release(m_strong).destroy THEN "backend" ELSE m_last_ref
    /\ UNCHANGED <<m_exists, m_next_id, m_list, m_w, m_cb, m_cancel_fired, m_ctx_freed,
                   m_uaf>>
    /\ UNCHANGED notTeardown

\* A variant of watch whose watcher holds no reference of the backend.
IoHidManagerBackend_watch_without_clone ==
    /\ m_handles # {}
    /\ m_next_id \in ManagerWatchers
    /\ m_next_id' = m_next_id + 1
    /\ m_list' = Append(m_list, m_next_id)
    /\ m_w' = [m_w EXCEPT ![m_next_id] = "alive"]
    /\ UNCHANGED <<m_exists, m_handles, m_strong, m_cb, m_drop, m_cancel_fired, m_ctx_freed,
                   m_last_ref, m_uaf>>
    /\ UNCHANGED notTeardown

\* IoHidManagerBackend::watch: DeviceWatcher::new(self.clone()), which calls
\* register_watcher.
IoHidManagerBackend_watch ==
    /\ m_handles # {}
    /\ m_next_id \in ManagerWatchers
    /\ m_strong' = m_strong + 1
    /\ m_next_id' = m_next_id + 1
    /\ m_list' = Append(m_list, m_next_id)
    /\ m_w' = [m_w EXCEPT ![m_next_id] = "alive"]
    /\ UNCHANGED <<m_exists, m_handles, m_cb, m_drop, m_cancel_fired, m_ctx_freed,
                   m_last_ref, m_uaf>>
    /\ UNCHANGED notTeardown

\* Stream::poll_next of a DeviceWatcher: self.queue.poll_next(cx); it uses
\* the watcher's own queue and nothing of the context.
DeviceWatcher_poll(w) ==
    /\ m_w[w] = "alive"
    /\ UNCHANGED teardownVars
    /\ UNCHANGED notTeardown

\* Drop for DeviceWatcher, the body: unregister_watcher(self.id) on the
\* context reached through self.backend.
DeviceWatcher_drop_body(w) ==
    /\ m_w[w] = "alive"
    /\ m_w' = [m_w EXCEPT ![w] = "unregistered"]
    /\ m_list' = unregister_watcher(m_list, w)
    /\ m_uaf' = (m_uaf \/ m_ctx_freed)
    /\ UNCHANGED <<m_exists, m_handles, m_strong, m_next_id, m_cb, m_drop, m_cancel_fired,
                   m_ctx_freed, m_last_ref>>
    /\ UNCHANGED notTeardown

\* Drop for DeviceWatcher, the fields: the queue and then the backend
\* reference are dropped.
DeviceWatcher_drop_fields(w) ==
    /\ m_w[w] = "unregistered"
    /\ m_w' = [m_w EXCEPT ![w] = "dropped"]
    /\ m_strong' = Arc_release(m_strong).strong
    /\ m_drop' = IF Arc_release(m_strong).destroy THEN "waiting" ELSE m_drop
    /\ m_last_ref' = IF Arc_release(m_strong).destroy THEN "watcher" ELSE m_last_ref
    /\ UNCHANGED <<m_exists, m_handles, m_next_id, m_list, m_cb, m_cancel_fired,
                   m_ctx_freed, m_uaf>>
    /\ UNCHANGED notTeardown

\* The dispatch queue enters added_callback or removed_callback; no
\* callback of a cancelled manager is called.
manager_callback_enter ==
    /\ m_exists
    /\ ~m_cb
    /\ ~m_cancel_fired
    /\ m_cb' = TRUE
    /\ m_uaf' = (m_uaf \/ m_ctx_freed)
    /\ UNCHANGED <<m_exists, m_handles, m_strong, m_next_id, m_list, m_w, m_drop,
                   m_cancel_fired, m_ctx_freed, m_last_ref>>
    /\ UNCHANGED notTeardown

\* The callback takes the locks of the context for the last time and
\* returns.
manager_callback_return ==
    /\ m_cb
    /\ m_cb' = FALSE
    /\ m_uaf' = (m_uaf \/ m_ctx_freed)
    /\ UNCHANGED <<m_exists, m_handles, m_strong, m_next_id, m_list, m_w, m_drop,
                   m_cancel_fired, m_ctx_freed, m_last_ref>>
    /\ UNCHANGED notTeardown

\* Drop for IoHidManagerBackendInner has called set_cancel_handler and
\* cancel; the dispatch queue runs the cancel handler after the callback in
\* flight.
manager_cancel_handler ==
    /\ m_drop = "waiting"
    /\ ~m_cb
    /\ ~m_cancel_fired
    /\ m_cancel_fired' = TRUE
    /\ UNCHANGED <<m_exists, m_handles, m_strong, m_next_id, m_list, m_w, m_cb, m_drop,
                   m_ctx_freed, m_last_ref, m_uaf>>
    /\ UNCHANGED notTeardown

\* Drop for IoHidManagerBackendInner: once.wait() has returned and the
\* context is freed.
IoHidManagerBackendInner_drop_free ==
    /\ m_drop = "waiting"
    /\ m_cancel_fired
    /\ m_drop' = "freed"
    /\ m_ctx_freed' = TRUE
    /\ UNCHANGED <<m_exists, m_handles, m_strong, m_next_id, m_list, m_w, m_cb,
                   m_cancel_fired, m_last_ref, m_uaf>>
    /\ UNCHANGED notTeardown

-----------------------------------------------------------------------------
(***************************************************************************)
(* The stream Backend::watch returns, on each backend: what one poll of it *)
(* returns.  hidraw reads uevents from a netlink socket and parses them;   *)
(* macOS pops the watcher's AsyncQueue; WinRT chains the channel's         *)
(* receiver with a stream that is always pending.                          *)
(***************************************************************************)

\* A kernel uevent datagram for a hidraw device being added: its length,
\* whether it starts with "libudev\0", whether the magic number matches,
\* the properties offset of the udev header, whether it contains '@', the
\* position of its first NUL (-1: none), whether the properties are UTF-8,
\* and the ACTION, SUBSYSTEM and DEVPATH properties.  recv_ok is FALSE for a
\* recvfrom that fails instead of delivering a datagram.
KernelAdd ==
    [recv_ok |-> TRUE, len |-> 64, udev |-> FALSE, magic |-> TRUE, off |-> 40,
     at |-> TRUE, nul |-> 20, utf8 |-> TRUE,
     action |-> "add", subsystem |-> "hidraw", devpath |-> TRUE]

\* The datagrams and receive errors the socket can deliver.
Datagrams ==
    { KernelAdd,
      [KernelAdd EXCEPT !.action = "remove"],
      [KernelAdd EXCEPT !.action = "change"],
      [KernelAdd EXCEPT !.action = "missing"],
      [KernelAdd EXCEPT !.subsystem = "usb"],
      [KernelAdd EXCEPT !.devpath = FALSE],
      [KernelAdd EXCEPT !.len = 16],
      [KernelAdd EXCEPT !.at = FALSE],
      [KernelAdd EXCEPT !.nul = -1],
      [KernelAdd EXCEPT !.utf8 = FALSE],
      [KernelAdd EXCEPT !.udev = TRUE],
      [KernelAdd EXCEPT !.udev = TRUE, !.magic = FALSE],
      [KernelAdd EXCEPT !.udev = TRUE, !.off = 100],
      [KernelAdd EXCEPT !.recv_ok = FALSE] }

\* UEvent::parse with parse_internal: the length, the header (udev or
\* kernel), the slice event[offset..], which panics for an offset beyond the
\* length, then the properties.
UEvent_parse(ev) ==
    IF ev.len < 32 THEN [kind |-> "Err"]
    ELSE IF ev.udev /\ ~ev.magic THEN [kind |-> "Err"]
    ELSE IF ~ev.udev /\ ~ev.at THEN [kind |-> "Err"]
    ELSE IF ~ev.udev /\ ev.nul = -1 THEN [kind |-> "Err"]
    ELSE IF (IF ev.udev THEN ev.off ELSE ev.nul + 1) > ev.len THEN [kind |-> "Panic"]
    ELSE IF ~ev.utf8 THEN [kind |-> "Err"]
    ELSE IF ev.action = "missing" \/ ev.subsystem = "missing" \/ ~ev.devpath
         THEN [kind |-> "Err"]
    ELSE [kind |-> "Ok", action |-> ev.action, subsystem |-> ev.subsystem]

\* One poll of the unfold stream of HidRawBackend::watch: the loop runs
\* until the socket would block (Pending) or a hidraw add/remove event is
\* returned; receive errors, parse errors, other subsystems and other
\* actions continue the loop.
RECURSIVE HidRawBackend_watch_unfold(_)
HidRawBackend_watch_unfold(sock) ==
    IF sock = <<>> THEN [last |-> "Pending", sock |-> sock]
    ELSE IF ~Head(sock).recv_ok THEN HidRawBackend_watch_unfold(Tail(sock))
    ELSE IF UEvent_parse(Head(sock)).kind = "Panic"
         THEN [last |-> "Panic", sock |-> Tail(sock)]
    ELSE IF UEvent_parse(Head(sock)).kind = "Err"
         THEN HidRawBackend_watch_unfold(Tail(sock))
    ELSE IF UEvent_parse(Head(sock)).subsystem # "hidraw"
         THEN HidRawBackend_watch_unfold(Tail(sock))
    ELSE IF UEvent_parse(Head(sock)).action = "add"
         THEN [last |-> "Connected", sock |-> Tail(sock)]
    ELSE IF UEvent_parse(Head(sock)).action = "remove"
         THEN [last |-> "Disconnected", sock |-> Tail(sock)]
    ELSE HidRawBackend_watch_unfold(Tail(sock))

\* Stream::poll_next for Chain<Receiver, WatchHelper>: the receiver until it
\* ends, then WatchHelper, which is always pending.
Chain_poll_next(chain, items, closed) ==
    IF chain = "second" THEN [last |-> "Pending", chain |-> "second", items |-> items]
    ELSE IF Receiver_recv(items, closed).kind = "Ok"
         THEN [last |-> Head(items), chain |-> "first", items |-> Tail(items)]
    ELSE IF Receiver_recv(items, closed).kind = "Disconnected"
         THEN [last |-> "Pending", chain |-> "second", items |-> items]
    ELSE [last |-> "Pending", chain |-> "first", items |-> items]

\* A datagram, or a receive error, becomes due on the netlink socket.
netlink_arrive(ev) ==
    /\ s_target = "hidraw"
    /\ Len(s_sock) < MaxSock
    /\ s_sock' = Append(s_sock, ev)
    /\ UNCHANGED <<s_target, s_items, s_closed, s_chain, s_last, s_polls>>
    /\ UNCHANGED notStream

\* One poll of the hidraw watch stream.
HidRawBackend_watch_poll ==
    /\ s_target = "hidraw"
    /\ s_last # "Panic"
    /\ s_sock' = HidRawBackend_watch_unfold(s_sock).sock
    /\ s_last' = HidRawBackend_watch_unfold(s_sock).last
    /\ s_polls' = s_polls \cup {s_last'}
    /\ UNCHANGED <<s_target, s_items, s_closed, s_chain>>
    /\ UNCHANGED notStream

\* macOS notify_watchers / the WinRT watcher's handler: an event is pushed
\* to the subscriber; a closed channel takes none.
watch_event_push(kind) ==
    /\ s_target \in {"macos", "winrt"}
    /\ ~s_closed
    /\ s_items' = ArrayQueue_force_push(s_items, kind).items
    /\ UNCHANGED <<s_target, s_sock, s_closed, s_chain, s_last, s_polls>>
    /\ UNCHANGED notStream

\* WinRT: the subscriber's channel is closed.
watch_channel_close ==
    /\ s_target = "winrt"
    /\ ~s_closed
    /\ s_closed' = TRUE
    /\ UNCHANGED <<s_target, s_sock, s_items, s_chain, s_last, s_polls>>
    /\ UNCHANGED notStream

\* macOS: one poll of the DeviceWatcher, AsyncQueue::poll_next.
IoHidManagerBackend_watch_poll ==
    /\ s_target = "macos"
    /\ s_items' = ArrayQueue_pop(s_items).items
    /\ s_last' = IF ArrayQueue_pop(s_items).got = <<>> THEN "Pending"
                 ELSE ArrayQueue_pop(s_items).got[1]
    /\ s_polls' = s_polls \cup {s_last'}
    /\ UNCHANGED <<s_target, s_sock, s_closed, s_chain>>
    /\ UNCHANGED notStream

\* WinRT: one poll of receiver.chain(WatchHelper).
WinRtBackend_watch_poll ==
    /\ s_target = "winrt"
    /\ s_items' = Chain_poll_next(s_chain, s_items, s_closed).items
    /\ s_chain' = Chain_poll_next(s_chain, s_items, s_closed).chain
    /\ s_last' = Chain_poll_next(s_chain, s_items, s_closed).last
    /\ s_polls' = s_polls \cup {s_last'}
    /\ UNCHANGED <<s_target, s_sock, s_closed>>
    /\ UNCHANGED notStream

-----------------------------------------------------------------------------
(***************************************************************************)
(* open and query_devices on a DeviceId: the error each backend returns,   *)
(* from what the operating system answers for a device that is attached    *)
(* or gone.                                                                *)
(***************************************************************************)

\* What the operating system can answer for an attached device: success,
\* an access error, or an entry the backend cannot use (hidraw: a property
\* missing from uevent; macOS: IOHIDDevice::new returns None).
AttachedAnswers == {"ok", "denied", "unusable"}

\* What Windows answers for a device that is gone, as the map_err of open
\* expects it: a null result (an error whose code is S_OK) or
\* ERROR_FILE_NOT_FOUND.  The other systems answer "not found".
GoneAnswers(t) ==
    IF t = "winrt" THEN {"null", "ERROR_FILE_NOT_FOUND"}
    ELSE {"not_found"}

\* From<windows::core::Error> for HidError.
From_windows_Error(code) ==
    IF code = "ERROR_DEVICE_NOT_CONNECTED" THEN "Disconnected" ELSE "Other"

\* HidRawBackend::open: uevent of the sysfs entry, DEVNAME, the device node.
HidRawBackend_open(present, os) ==
    IF present = "gone" THEN "NotConnected"
    ELSE IF os = "unusable" THEN "Message"
    ELSE IF present = "node_gone" THEN "NotConnected"
    ELSE IF os = "denied" THEN "Other"
    ELSE "Ok"

\* get_device_info_raw, which is HidRawBackend::query_info: device/uevent of
\* the sysfs entry, then its properties.
get_device_info_raw(present, os) ==
    IF present = "gone" THEN "NotConnected"
    ELSE IF os = "denied" THEN "Other"
    ELSE IF os = "unusable" THEN "Message"
    ELSE "Ok"

\* macOS get_device, as open and query_info call it first.
get_device(present, os) ==
    IF present = "gone" THEN "NotConnected"
    ELSE IF os = "unusable" THEN "Message"
    ELSE IF os = "denied" THEN "Other"
    ELSE "Ok"

\* WinRtBackend::open: the map_err on HidDevice::FromIdAsync.
WinRtBackend_open(present, os) ==
    IF present = "attached"
    THEN (IF os = "ok" THEN "Ok" ELSE "Other")
    ELSE IF os = "null" \/ os = "ERROR_FILE_NOT_FOUND" THEN "NotConnected"
    ELSE From_windows_Error(os)

\* WinRtBackend::query_info: DeviceInformation::CreateFromIdAsync(id)?.await?
WinRtBackend_query_info(present, os) ==
    IF present = "attached"
    THEN (IF os = "ok" THEN "Ok" ELSE "Other")
    ELSE From_windows_Error(os)

\* The result of Backend::open on each backend.
open_result(t, present, os) ==
    CASE t = "hidraw" -> HidRawBackend_open(present, os)
      [] t = "macos" -> get_device(present, os)
      [] t = "winrt" -> WinRtBackend_open(present, os)

\* The result of Backend::query_info on each backend.
query_info_result(t, present, os) ==
    CASE t = "hidraw" -> get_device_info_raw(present, os)
      [] t = "macos" -> get_device(present, os)
      [] t = "winrt" -> WinRtBackend_query_info(present, os)

\* The answers the system can give in a state of the device.
Answers(t, present) ==
    IF present = "gone" THEN GoneAnswers(t)
    ELSE IF present = "node_gone" THEN {"ok", "unusable"}
    ELSE AttachedAnswers

\* The device is unplugged; on Linux the device node goes before the sysfs
\* entry.
device_unplug ==
    /\ q_target # "none"
    /\ q_present # "gone"
    /\ q_present' = IF q_target = "hidraw" /\ q_present = "attached" THEN "node_gone"
                    ELSE "gone"
    /\ UNCHANGED <<q_target, q_calls>>
    /\ UNCHANGED notIdent

\* The device is plugged in again under the same id.
device_replug ==
    /\ q_target # "none"
    /\ q_present = "gone"
    /\ q_present' = "attached"
    /\ UNCHANGED <<q_target, q_calls>>
    /\ UNCHANGED notIdent

\* Device::open_readable / open_writeable / open on the id.
Device_open_id(os) ==
    /\ q_target # "none"
    /\ os \in Answers(q_target, q_present)
    /\ q_calls' = q_calls \cup {[op |-> "open", present |-> q_present, os |-> os,
                                 result |-> open_result(q_target, q_present, os)]}
    /\ UNCHANGED <<q_target, q_present>>
    /\ UNCHANGED notIdent

\* HidBackend::query_devices on the id.
HidBackend_query_devices(os) ==
    /\ q_target # "none"
    /\ os \in Answers(q_target, q_present)
    /\ q_calls' = q_calls \cup {[op |-> "query_devices", present |-> q_present, os |-> os,
                                 result |-> query_info_result(q_target, q_present, os)]}
    /\ UNCHANGED <<q_target, q_present>>
    /\ UNCHANGED notIdent

-----------------------------------------------------------------------------
(***************************************************************************)
(* Enumeration.  hidraw lists /sys/class/hidraw, canonicalizes every entry *)
(* and collects the paths with try_collect_vec, then maps                  *)
(* get_device_info_raw over them and flattens; macOS maps get_device_info  *)
(* over the manager's devices and flattens.  HidBackend::enumerate filters *)
(* the Err items out.                                                      *)
(***************************************************************************)

\* An entry: "ok" with the number of its top-level usages, "canon_fail"
\* (hidraw: read_dir or canonicalize fails for it) or "info_fail" (its
\* DeviceInfo cannot be read).
EntryKinds ==
    [kind : {"ok"}, usages : {1, 2}] \cup [kind : {"canon_fail", "info_fail"}, usages : {1}]

\* The entries a backend can meet.
EntriesOf(t) ==
    IF t = "hidraw" THEN EntryKinds ELSE {k \in EntryKinds : k.kind # "canon_fail"}

\* The lists of at most n entries.
RECURSIVE EntryLists(_, _)
EntryLists(t, n) ==
    IF n = 0 THEN {<<>>} ELSE SeqsOf(EntriesOf(t), n) \cup EntryLists(t, n - 1)

\* TryIterExt::try_collect_vec over the canonicalized entries, from the
\* i-th on: the first Err ends the loop and is returned.
RECURSIVE try_collect_vec(_, _)
try_collect_vec(entries, i) ==
    IF i > Len(entries) THEN [kind |-> "Ok", vec |-> <<>>]
    ELSE IF entries[i].kind = "canon_fail" THEN [kind |-> "Err", vec |-> <<>>]
    ELSE IF try_collect_vec(entries, i + 1).kind = "Err" THEN [kind |-> "Err", vec |-> <<>>]
    ELSE [kind |-> "Ok", vec |-> <<i>> \o try_collect_vec(entries, i + 1).vec]

\* get_device_info_raw / get_device_info of the i-th entry: an error, or one
\* DeviceInfo per usage.
get_device_info(entries, i) ==
    IF entries[i].kind = "ok"
    THEN [kind |-> "Ok", vec |-> [u \in 1..entries[i].usages |-> [kind |-> "Ok", entry |-> i, usage |-> u]]]
    ELSE [kind |-> "Err", vec |-> <<>>]

\* TryFlattenIter over the results for the entries in ids: the items of
\* every Ok, one Err item for every Err.
RECURSIVE TryFlattenIter(_, _)
TryFlattenIter(entries, ids) ==
    IF ids = <<>> THEN <<>>
    ELSE (IF get_device_info(entries, Head(ids)).kind = "Ok"
          THEN get_device_info(entries, Head(ids)).vec
          ELSE <<[kind |-> "Err", entry |-> Head(ids), usage |-> 0]>>)
             \o TryFlattenIter(entries, Tail(ids))

\* The filter_map of HidBackend::enumerate, one poll: the Err items are
\* skipped up to the next Ok item or the end.
RECURSIVE filter_map_next(_)
filter_map_next(stream) ==
    IF stream = <<>> THEN [got |-> <<>>, stream |-> <<>>]
    ELSE IF Head(stream).kind = "Ok" THEN [got |-> <<Head(stream)>>, stream |-> Tail(stream)]
    ELSE filter_map_next(Tail(stream))

\* Backend::enumerate as HidBackend::enumerate awaits it.
Backend_enumerate ==
    /\ e_target # "none"
    /\ e_pc = "idle"
    /\ IF e_target = "hidraw" /\ try_collect_vec(e_entries, 1).kind = "Err"
       THEN /\ e_pc' = "failed"
            /\ e_stream' = <<>>
       ELSE /\ e_pc' = "streaming"
            /\ e_stream' = TryFlattenIter(e_entries,
                               IF e_target = "hidraw" THEN try_collect_vec(e_entries, 1).vec
                               ELSE [i \in 1..Len(e_entries) |-> i])
    /\ UNCHANGED <<e_target, e_entries, e_yielded>>
    /\ UNCHANGED notEnum

\* One poll of the stream HidBackend::enumerate returned.
HidBackend_enumerate_next ==
    /\ e_pc = "streaming"
    /\ e_stream' = filter_map_next(e_stream).stream
    /\ e_yielded' = e_yielded \o filter_map_next(e_stream).got
    /\ e_pc' = IF filter_map_next(e_stream).got = <<>> THEN "done" ELSE "streaming"
    /\ UNCHANGED <<e_target, e_entries>>
    /\ UNCHANGED notEnum

-----------------------------------------------------------------------------
(***************************************************************************)
(* The report-descriptor scanner of the hidraw backend, and the lists of   *)
(* DeviceInfo built from its pairs (hidraw) or from the usage pairs of the *)
(* device (macOS).  A descriptor is a sequence of bytes, a cursor position *)
(* counts the bytes before it, and a pair is <<usage_page, usage_id>>.     *)
(***************************************************************************)

\* The bytes descriptors are built from: items of every size code (0x01,
\* 0x05, 0x06, 0x07 Usage Page with one, two, four bytes, 0x09 Usage, 0x81 Input,
\* 0xA1 Collection, 0xC0 End Collection) and a long item prefix (0xFE).
DescBytes == {1, 5, 6, 7, 9, 129, 161, 192, 254}

\* The byte sequences of at most n bytes.
RECURSIVE ByteDescriptors(_)
ByteDescriptors(n) ==
    IF n = 0 THEN {<<>>} ELSE SeqsOf(DescBytes, n) \cup ByteDescriptors(n - 1)

\* The contents of a collection: nothing, a usage with an Input item, a
\* nested collection without a usage, a nested collection with a usage.
CollectionBodies ==
    { <<>>, <<9, 48, 129, 2>>, <<161, 0, 192>>, <<9, 1, 161, 0, 192>> }

\* Usage Page p, Usage u, Collection (Application), body, End Collection.
TopLevelCollection(p, u, body) == <<5, p, 9, u, 161, 1>> \o body \o <<192>>

\* The top-level collections descriptors are built from, with their pair.
TopLevelCollections ==
    { [bytes |-> TopLevelCollection(p, u, body), pair |-> <<p, u>>] :
          p \in {1, 12}, u \in {2, 6}, body \in CollectionBodies }

\* The ends of a descriptor that stops in the middle of an item.
TruncatedTails ==
    { <<5>>, <<9>>, <<161>>, <<254>>, <<6, 1>>,
      <<9, 7, 5>>, <<9, 7, 161>>, <<9, 7, 254>> }

\* The descriptors a device can present.
Descriptors ==
    ByteDescriptors(MaxDescLen)
        \cup {c.bytes : c \in TopLevelCollections}
        \cup {c.bytes \o d.bytes : c \in TopLevelCollections, d \in TopLevelCollections}
        \cup {c.bytes \o t : c \in TopLevelCollections, t \in TruncatedTails}

\* u32::from_le_bytes of the n bytes after position pos.
RECURSIVE from_le_bytes(_, _, _)
from_le_bytes(bytes, pos, n) ==
    IF n = 0 THEN 0 ELSE bytes[pos + 1] + 256 * from_le_bytes(bytes, pos + 1, n - 1)

\* hid_item_size with the cursor at pos, after the key: a long item reads
\* its length byte, a short item has its size code in the bottom two bits.
hid_item_size(bytes, pos, key) ==
    IF key \div 16 = 15
    THEN (IF pos < Len(bytes)
          THEN [ok |-> TRUE, data_len |-> bytes[pos + 1], key_size |-> 3, pos |-> pos + 1]
          ELSE [ok |-> FALSE, data_len |-> 0, key_size |-> 3, pos |-> pos])
    ELSE [ok |-> TRUE, data_len |-> (IF key % 4 = 3 THEN 4 ELSE key % 4),
          key_size |-> 1, pos |-> pos]

\* hid_report_bytes: read_exact of num_bytes into a four-byte array; the
\* slice panics for more than four, and a read past the end is an error
\* that leaves the cursor at the end.
hid_report_bytes(bytes, pos, num_bytes) ==
    IF num_bytes > 4 THEN [kind |-> "Panic", v |-> 0, pos |-> pos]
    ELSE IF pos + num_bytes > Len(bytes) THEN [kind |-> "Err", v |-> 0, pos |-> Len(bytes)]
    ELSE [kind |-> "Ok", v |-> from_le_bytes(bytes, pos, num_bytes), pos |-> pos + num_bytes]

\* next_hid_usage after its loop: the pair of a pending usage on the first
\* call, else None.  usage is <<>> or <<u>>; items counts the items the call
\* has processed.
next_hid_usage_end(pos, usage_page, usage, initial, items) ==
    IF initial /\ usage # <<>>
    THEN [kind |-> "Some", pair |-> <<usage_page, usage[1]>>, pos |-> pos, items |-> items]
    ELSE [kind |-> "None", pair |-> <<0, 0>>, pos |-> pos, items |-> items]

\* The while loop of next_hid_usage with the cursor at pos.
RECURSIVE next_hid_usage_loop(_, _, _, _, _, _)
next_hid_usage_loop(bytes, pos, usage_page, usage, initial, items) ==
    IF pos >= Len(bytes)
    THEN next_hid_usage_end(pos, usage_page, usage, initial, items)
    ELSE LET key == bytes[pos + 1]
             key_cmd == key - (key % 4)
             size == hid_item_size(bytes, pos + 1, key)
             data == hid_report_bytes(bytes, size.pos, size.data_len)
             seek == pos + size.data_len + size.key_size
         IN  IF ~size.ok
             THEN [kind |-> "None", pair |-> <<0, 0>>, pos |-> size.pos, items |-> items + 1]
             ELSE IF key_cmd \in {4, 8} /\ data.kind = "Panic"
             THEN [kind |-> "Panic", pair |-> <<0, 0>>, pos |-> size.pos, items |-> items + 1]
             ELSE IF key_cmd \in {4, 8} /\ data.kind = "Err"
             THEN next_hid_usage_end(data.pos, usage_page, usage, initial, items + 1)
             ELSE IF key_cmd = 4
             THEN next_hid_usage_loop(bytes, seek, data.v % 65536, usage, initial, items + 1)
             ELSE IF key_cmd = 8
             THEN next_hid_usage_loop(bytes, seek, usage_page, <<data.v % 65536>>, initial,
                                      items + 1)
             ELSE IF key_cmd = 160 /\ usage # <<>>
             THEN [kind |-> "Some", pair |-> <<usage_page, usage[1]>>, pos |-> seek,
                   items |-> items + 1]
             ELSE IF key_cmd \in {128, 144, 160, 176, 192}
             THEN next_hid_usage_loop(bytes, seek, usage_page, <<>>, initial, items + 1)
             ELSE next_hid_usage_loop(bytes, seek, usage_page, usage, initial, items + 1)

\* next_hid_usage(cursor, usage_page).
next_hid_usage(bytes, pos, usage_page) ==
    next_hid_usage_loop(bytes, pos, usage_page, <<>>, pos = 0, 0)

\* HidrawReportDescriptor::usages collected: UsageIterator::next until it
\* returns None.
RECURSIVE usages_from(_, _, _)
usages_from(bytes, pos, usage_page) ==
    IF next_hid_usage(bytes, pos, usage_page).kind # "Some" THEN <<>>
    ELSE <<next_hid_usage(bytes, pos, usage_page).pair>>
             \o usages_from(bytes, next_hid_usage(bytes, pos, usage_page).pos,
                            next_hid_usage(bytes, pos, usage_page).pair[1])

usages(bytes) == usages_from(bytes, 0, 0)

\* A variant of UsageIterator::next that leaves the cursor where it was.
UsageIterator_next_without_seek ==
    /\ hd_target = "hidraw"
    /\ hd_query = "none"
    /\ hd_state \in {"idle", "iterating"}
    /\ LET r == next_hid_usage(hd_bytes, hd_pos, hd_usage_page)
       IN  /\ hd_pos' = hd_pos
           /\ hd_items' = hd_items + r.items
           /\ hd_usage_page' = IF r.kind = "Some" THEN r.pair[1] ELSE hd_usage_page
           /\ hd_out' = IF r.kind = "Some" THEN Append(hd_out, r.pair) ELSE hd_out
           /\ hd_state' = CASE r.kind = "Some" -> "iterating"
                            [] r.kind = "None" -> "done"
                            [] r.kind = "Panic" -> "panicked"
    /\ UNCHANGED <<hd_target, hd_bytes, hd_query, hd_infos>>
    /\ UNCHANGED notDesc

\* UsageIterator::next, one call.
UsageIterator_next ==
    /\ hd_target = "hidraw"
    /\ hd_query = "none"
    /\ hd_state \in {"idle", "iterating"}
    /\ LET r == next_hid_usage(hd_bytes, hd_pos, hd_usage_page)
       IN  /\ hd_pos' = r.pos
           /\ hd_items' = hd_items + r.items
           /\ hd_usage_page' = IF r.kind = "Some" THEN r.pair[1] ELSE hd_usage_page
           /\ hd_out' = IF r.kind = "Some" THEN Append(hd_out, r.pair) ELSE hd_out
           /\ hd_state' = CASE r.kind = "Some" -> "iterating"
                            [] r.kind = "None" -> "done"
                            [] r.kind = "Panic" -> "panicked"
    /\ UNCHANGED <<hd_target, hd_bytes, hd_query, hd_infos>>
    /\ UNCHANGED notDesc

\* The end of get_device_info_raw: one DeviceInfo per pair of the
\* descriptor's scan, or the one with (0, 0) when from_syspath fails.
get_device_info_raw_results(readable) ==
    /\ hd_target = "hidraw"
    /\ hd_state = "idle"
    /\ hd_query = "none"
    /\ hd_query' = IF readable THEN "scanned" ELSE "unreadable"
    /\ hd_infos' = IF readable THEN usages(hd_bytes) ELSE <<<<0, 0>>>>
    /\ UNCHANGED <<hd_target, hd_bytes, hd_pos, hd_usage_page, hd_state, hd_out, hd_items>>
    /\ UNCHANGED notDesc

\* The usage pairs macOS reports for a device.
UsagePairs == {<<1, 2>>, <<1, 6>>, <<12, 1>>}

\* The arrays under kIOHIDDeviceUsagePairsKey: no array, or pairs without
\* repetition.
UsagePairArrays ==
    {<<>>} \cup {<<p>> : p \in UsagePairs}
           \cup {s \in SeqsOf(UsagePairs, 2) : s[1] # s[2]}

\* The filter of get_device_info: the pairs other than the primary one.
RECURSIVE filter_primary(_, _)
filter_primary(pairs, primary) ==
    IF pairs = <<>> THEN <<>>
    ELSE (IF Head(pairs) # primary THEN <<Head(pairs)>> ELSE <<>>)
             \o filter_primary(Tail(pairs), primary)

\* The end of the macOS get_device_info: the primary DeviceInfo, then one
\* for every other pair of the array.
get_device_info_results(primary, pairs) ==
    /\ hd_target = "macos"
    /\ hd_query = "none"
    /\ hd_query' = "pairs"
    /\ hd_infos' = <<primary>> \o filter_primary(pairs, primary)
    /\ UNCHANGED <<hd_target, hd_bytes, hd_pos, hd_usage_page, hd_state, hd_out, hd_items>>
    /\ UNCHANGED notDesc

-----------------------------------------------------------------------------
(***************************************************************************)
(* The uevent parser of the hidraw backend, on the bytes of a netlink      *)
(* datagram.  Text is written as its ASCII bytes.                          *)
(***************************************************************************)

Str_libudev == <<108, 105, 98, 117, 100, 101, 118, 0>>  \* "libudev\0"
Str_ACTION == <<65, 67, 84, 73, 79, 78>>  \* "ACTION"
Str_SUBSYSTEM == <<83, 85, 66, 83, 89, 83, 84, 69, 77>>  \* "SUBSYSTEM"
Str_DEVPATH == <<68, 69, 86, 80, 65, 84, 72>>  \* "DEVPATH"
Str_add == <<97, 100, 100>>  \* "add"
Str_remove == <<114, 101, 109, 111, 118, 101>>  \* "remove"
Str_change == <<99, 104, 97, 110, 103, 101>>  \* "change"
Str_hidraw == <<104, 105, 100, 114, 97, 119>>  \* "hidraw"
Str_usb == <<117, 115, 98>>  \* "usb"
Str_devices_foo == <<47, 100, 101, 118, 105, 99, 101, 115, 47, 102, 111, 111>>  \* "/devices/foo"
Str_a_eq_b == <<47, 97, 61, 98>>  \* "/a=b"
Str_SEQNUM_1 == <<83, 69, 81, 78, 85, 77, 61, 49>>  \* "SEQNUM=1"
Str_junk == <<106, 117, 110, 107>>  \* "junk"
Str_kernel_header == <<97, 100, 100, 64, 47, 100, 101, 118, 105, 99, 101, 115, 47, 102, 111, 111, 0>>  \* "add@/devices/foo\0"
Str_short_header == <<97, 64, 0>>  \* "a@\0"
Str_NAME_invalid == <<78, 65, 77, 69, 61, 255, 254>>  \* "NAME=" and the bytes 0xFF 0xFE
Str_NAME_at == <<78, 65, 77, 69, 61, 97, 64, 98, 0>>  \* "NAME=a@b\0"
Str_header_without_at == <<97, 100, 100, 58, 47, 100, 101, 118, 105, 99, 101, 115, 47, 102, 111, 111, 0>>  \* "add:/devices/foo\0"

\* UDEV_MONITOR_MAGIC, 0xfeedcafe, as its four bytes in big-endian order.
UDEV_MONITOR_MAGIC == <<254, 237, 202, 254>>

\* Four-byte fields that are not the magic: its bytes in little-endian
\* order, and zero.
OtherMagics == {<<254, 202, 237, 254>>, <<0, 0, 0, 0>>}

\* The value of a key of a uevent: <<>> when the key is absent, else the
\* bytes of the value in a one-element tuple.
ActionValues == {<<>>, <<Str_add>>, <<Str_remove>>, <<Str_change>>}
SubsystemValues == {<<>>, <<Str_hidraw>>, <<Str_usb>>}
DevPathValues == {<<>>, <<Str_devices_foo>>, <<Str_a_eq_b>>}

\* One more line of the payload: none, another KEY=VALUE line, a line
\* without '=', or a KEY=VALUE line whose value is not UTF-8.
ExtraLines == {<<>>, <<Str_SEQNUM_1>>, <<Str_junk>>, <<Str_NAME_invalid>>}

\* KEY=VALUE and its NUL when the value is present, else nothing.
KeyLine(key, value) ==
    IF value = <<>> THEN <<>> ELSE key \o <<61>> \o value[1] \o <<0>>

\* The properties of a uevent: its lines in the order the kernel sends them
\* (ACTION, SUBSYSTEM, DEVPATH, the extra line) or in the reverse order.
Properties(p) ==
    IF p.reversed
    THEN (IF p.extra = <<>> THEN <<>> ELSE p.extra[1] \o <<0>>)
             \o KeyLine(Str_DEVPATH, p.dev_path) \o KeyLine(Str_SUBSYSTEM, p.subsystem)
             \o KeyLine(Str_ACTION, p.action)
    ELSE KeyLine(Str_ACTION, p.action) \o KeyLine(Str_SUBSYSTEM, p.subsystem)
             \o KeyLine(Str_DEVPATH, p.dev_path)
             \o (IF p.extra = <<>> THEN <<>> ELSE p.extra[1] \o <<0>>)

\* The header of the udev monitor: "libudev\0", the magic, the header size,
\* the properties offset, the properties length and the filter hashes: 40
\* bytes.
UdevHeader(magic, off) ==
    Str_libudev \o magic \o <<40, 0, 0, 0>> \o off \o [i \in 1..20 |-> 0]

\* The datagrams: a frame, the magic and the properties offset of a udev
\* header, and the properties.
Frames ==
    {"kernel", "kernel_short", "kernel_without_at", "kernel_at_in_value", "udev", "udev_short"}

UEventShapes ==
    [frame : {"kernel", "kernel_without_at"}, magic : {UDEV_MONITOR_MAGIC},
     off : {<<40, 0, 0, 0>>}, action : ActionValues, subsystem : SubsystemValues,
     dev_path : DevPathValues, extra : ExtraLines, reversed : BOOLEAN]
    \cup
    [frame : {"udev"}, magic : {UDEV_MONITOR_MAGIC} \cup OtherMagics,
     off : {<<40, 0, 0, 0>>, <<0, 1, 0, 0>>}, action : {<<Str_add>>, <<Str_change>>},
     subsystem : SubsystemValues, dev_path : {<<>>, <<Str_devices_foo>>},
     extra : {<<>>, <<Str_NAME_invalid>>}, reversed : {FALSE}]
    \cup
    [frame : {"kernel_short"}, magic : {UDEV_MONITOR_MAGIC}, off : {<<40, 0, 0, 0>>},
     action : {<<<<>>>>}, subsystem : {<<<<>>>>}, dev_path : {<<<<>>>>, <<Str_devices_foo>>},
     extra : {<<>>}, reversed : BOOLEAN]
    \cup
    [frame : {"kernel_at_in_value"}, magic : {UDEV_MONITOR_MAGIC}, off : {<<40, 0, 0, 0>>},
     action : {<<Str_add>>}, subsystem : SubsystemValues, dev_path : {<<>>, <<Str_devices_foo>>},
     extra : {<<>>}, reversed : {FALSE}]
    \cup
    [frame : {"udev_short"}, magic : {UDEV_MONITOR_MAGIC} \cup OtherMagics,
     off : {<<40, 0, 0, 0>>}, action : {<<>>, <<Str_add>>}, subsystem : {<<>>},
     dev_path : {<<>>}, extra : {<<>>}, reversed : {FALSE}]

\* The bytes of a datagram.  The short kernel datagram has a one-letter
\* action, no device path in its first line and empty values; one kernel
\* datagram has its only '@' in the value of a later line; the short udev
\* datagram is cut after the magic, or after the header's first 28 bytes.
DatagramBytes(p) ==
    CASE p.frame = "kernel" -> Str_kernel_header \o Properties(p)
      [] p.frame = "kernel_short" -> Str_short_header \o Properties(p)
      [] p.frame = "kernel_without_at" -> Str_header_without_at \o Properties(p)
      [] p.frame = "kernel_at_in_value" ->
             Str_header_without_at \o Properties(p) \o Str_NAME_at
      [] p.frame = "udev" -> UdevHeader(p.magic, p.off) \o Properties(p)
      [] p.frame = "udev_short" ->
             SubSeq(UdevHeader(p.magic, p.off), 1, IF p.action = <<>> THEN 12 ELSE 28)

\* The position of the first byte b of bytes from index i on, 0 when there
\* is none.
RECURSIVE position(_, _, _)
position(bytes, b, i) ==
    IF i > Len(bytes) THEN 0
    ELSE IF bytes[i] = b THEN i
    ELSE position(bytes, b, i + 1)

\* str::split('\0'): the pieces between the NULs, a last empty piece
\* included.
RECURSIVE split_nul(_)
split_nul(bytes) ==
    IF position(bytes, 0, 1) = 0 THEN <<bytes>>
    ELSE <<SubSeq(bytes, 1, position(bytes, 0, 1) - 1)>>
             \o split_nul(SubSeq(bytes, position(bytes, 0, 1) + 1, Len(bytes)))

\* std::str::from_utf8 succeeds; the datagrams hold ASCII and the bytes
\* 0xFE and 0xFF, which no UTF-8 text contains.
is_utf8(bytes) == \A i \in 1..Len(bytes) : bytes[i] < 128

\* A variant of the match on the ACTION value that knows only "add".
UEvent_action_add_only(value) ==
    IF value = Str_add THEN [tag |-> "Add", value |-> <<>>]
    ELSE [tag |-> "Other", value |-> value]

\* The match on the value of ACTION.
UEvent_action(value) ==
    IF value = Str_add THEN [tag |-> "Add", value |-> <<>>]
    ELSE IF value = Str_remove THEN [tag |-> "Remove", value |-> <<>>]
    ELSE [tag |-> "Other", value |-> value]

\* The for loop of parse_internal over the lines from the i-th on: found
\* holds, per key, <<>> or the last value seen.
RECURSIVE parse_lines(_, _, _)
parse_lines(lines, i, found) ==
    IF i > Len(lines) THEN found
    ELSE LET line == lines[i]
             eq == position(line, 61, 1)
             key == SubSeq(line, 1, eq - 1)
             value == SubSeq(line, eq + 1, Len(line))
         IN  IF eq = 0 THEN parse_lines(lines, i + 1, found)
             ELSE IF key = Str_ACTION
             THEN parse_lines(lines, i + 1, [found EXCEPT !.action = <<value>>])
             ELSE IF key = Str_SUBSYSTEM
             THEN parse_lines(lines, i + 1, [found EXCEPT !.subsystem = <<value>>])
             ELSE IF key = Str_DEVPATH
             THEN parse_lines(lines, i + 1, [found EXCEPT !.dev_path = <<value>>])
             ELSE parse_lines(lines, i + 1, found)

\* The error value of the parser.
UEvent_Err ==
    [kind |-> "Err", action |-> [tag |-> "Other", value |-> <<>>], subsystem |-> <<>>,
     dev_path |-> <<>>]

\* The outcome of a call that panics.
UEvent_Panic == [UEvent_Err EXCEPT !.kind = "Panic"]

\* UEvent::parse_internal.
UEvent_parse_internal(event) ==
    IF ~is_utf8(event) THEN UEvent_Err
    ELSE LET found == parse_lines(split_nul(event), 1,
                                  [action |-> <<>>, subsystem |-> <<>>, dev_path |-> <<>>])
         IN  IF found.action = <<>> \/ found.subsystem = <<>> \/ found.dev_path = <<>>
             THEN UEvent_Err
             ELSE [kind |-> "Ok", action |-> UEvent_action(found.action[1]),
                   subsystem |-> found.subsystem[1], dev_path |-> found.dev_path[1]]

\* A variant of UEvent::parse that compares the magic in little-endian order.
UEvent_parse_bytes_le_magic(event) ==
    IF Len(event) < 32 THEN UEvent_Err
    ELSE IF SubSeq(event, 1, 8) = Str_libudev
    THEN (IF <<event[12], event[11], event[10], event[9]>> # UDEV_MONITOR_MAGIC THEN UEvent_Err
          ELSE IF from_le_bytes(event, 16, 4) > Len(event) THEN UEvent_Panic
          ELSE UEvent_parse_internal(
                   SubSeq(event, from_le_bytes(event, 16, 4) + 1, Len(event))))
    ELSE (IF position(event, 64, 1) = 0 THEN UEvent_Err
          ELSE IF position(event, 0, 1) = 0 THEN UEvent_Err
          ELSE UEvent_parse_internal(SubSeq(event, position(event, 0, 1) + 1, Len(event))))

\* UEvent::parse on the bytes of a datagram: the length, then the udev
\* header (magic at bytes 8..12 in big-endian order, offset at bytes 16..20
\* in the order of the machine, here little-endian) or the kernel header
\* ('@' and the first NUL), then parse_internal on event[offset..], a slice
\* that panics when offset is beyond the length.
UEvent_parse_bytes(event) ==
    IF Len(event) < 32 THEN UEvent_Err
    ELSE IF SubSeq(event, 1, 8) = Str_libudev
    THEN (IF SubSeq(event, 9, 12) # UDEV_MONITOR_MAGIC THEN UEvent_Err
          ELSE IF from_le_bytes(event, 16, 4) > Len(event) THEN UEvent_Panic
          ELSE UEvent_parse_internal(
                   SubSeq(event, from_le_bytes(event, 16, 4) + 1, Len(event))))
    ELSE (IF position(event, 64, 1) = 0 THEN UEvent_Err
          ELSE IF position(event, 0, 1) = 0 THEN UEvent_Err
          ELSE UEvent_parse_internal(SubSeq(event, position(event, 0, 1) + 1, Len(event))))

\* The watch loop calls UEvent::parse on a received datagram.
UEvent_parse_call ==
    /\ ue_state = "received"
    /\ ue_state' = "parsed"
    /\ ue_result' = UEvent_parse_bytes(ue_bytes)
    /\ UNCHANGED <<ue_shape, ue_bytes, ue_event>>
    /\ UNCHANGED notUevent

Str_sys == <<47, 115, 121, 115, 47>>  \* "/sys/"

\* The pieces of a path between its '/' bytes.
RECURSIVE split_slash(_)
split_slash(path) ==
    IF position(path, 47, 1) = 0 THEN <<path>>
    ELSE <<SubSeq(path, 1, position(path, 47, 1) - 1)>>
             \o split_slash(SubSeq(path, position(path, 47, 1) + 1, Len(path)))

\* Path::components without the RootDir component: the pieces that are
\* not empty, and not "." unless it starts a relative path.
Path_components(path) ==
    LET pieces == split_slash(path)
        keep(i) == /\ pieces[i] # <<>>
                   /\ pieces[i] = <<46>> => (i = 1)
    IN  SelectSeq([i \in 1..Len(pieces) |-> <<i, pieces[i]>>], LAMBDA x : keep(x[1]))

\* PathBuf::join of a relative component: a separator unless the path ends
\* with one, then the component.
PathBuf_join(path, component) ==
    (IF path # <<>> /\ path[Len(path)] = 47 THEN path ELSE path \o <<47>>) \o component

\* The fold of the watch loop: the components joined onto "/sys/".
RECURSIVE fold_join(_, _, _)
fold_join(path, components, i) ==
    IF i > Len(components) THEN path
    ELSE fold_join(PathBuf_join(path, components[i][2]), components, i + 1)

\* No event: the loop of the watch stream goes on to the next datagram.
WatchContinue == [kind |-> "Continue", id |-> <<>>]

\* The body of the loop of HidRawBackend::watch on a received datagram:
\* parse, filter the subsystem, rebase the device path, translate the
\* action.  A panic of the parser unwinds through the stream.
watch_loop_body(event) ==
    LET parsed == UEvent_parse_bytes(event)
        dev_path == fold_join(Str_sys, Path_components(parsed.dev_path), 1)
    IN  IF parsed.kind = "Panic" THEN [kind |-> "Panic", id |-> <<>>]
        ELSE IF parsed.kind = "Err" THEN WatchContinue
        ELSE IF parsed.subsystem # Str_hidraw THEN WatchContinue
        ELSE IF parsed.action.tag = "Add" THEN [kind |-> "Connected", id |-> dev_path]
        ELSE IF parsed.action.tag = "Remove" THEN [kind |-> "Disconnected", id |-> dev_path]
        ELSE WatchContinue

\* One iteration of the loop of the watch stream on a received datagram.
HidRawBackend_watch_iteration ==
    /\ ue_state = "received"
    /\ ue_state' = "looped"
    /\ ue_result' = UEvent_parse_bytes(ue_bytes)
    /\ ue_event' = watch_loop_body(ue_bytes)
    /\ UNCHANGED <<ue_shape, ue_bytes>>
    /\ UNCHANGED notUevent

-----------------------------------------------------------------------------
(***************************************************************************)
(* Writing a report on macOS: DeviceReadWriter::write_report on a handle   *)
(* opened for writing.                                                     *)
(***************************************************************************)

\* The bytes of a caller's buffer: 0x00 and two other values.
WriteBytes == {0, 1, 2}

\* The caller's buffers: every sequence of at most MaxWriteLen bytes.
WriteBuffers == UNION {SeqsOf(WriteBytes, n) : n \in 0..MaxWriteLen}

\* What IOHIDDeviceSetReport returns: success, the code of a device that is
\* gone, or another code.
IOReturns == {"kIOReturnSuccess", "kIOReturnBadArgument", "kIOReturnNotOpen"}

\* The match on the return code of set_report.
write_report_match(ret) ==
    IF ret = "kIOReturnSuccess" THEN "Ok"
    ELSE IF ret = "kIOReturnBadArgument" THEN "Disconnected"
    ELSE "Message"

\* data_to_send: buf[1..] when the report id buf[0] is 0x00, else buf.
data_to_send(buf) == IF buf[1] = 0 THEN Tail(buf) ELSE buf

\* DeviceReadWriter::write_report: buf[0] panics on an empty buffer;
\* otherwise one call of IOHIDDeviceSetReport, whose return code is mapped.
DeviceReadWriter_write_report(ret) ==
    /\ wr_state = "called"
    /\ IF wr_buf = <<>>
       THEN /\ wr_state' = "panicked"
            /\ wr_result' = "Panic"
            /\ UNCHANGED wr_call
       ELSE /\ wr_state' = "returned"
            /\ wr_call' = <<[report_type |-> wr_type, report_id |-> wr_buf[1],
                             data |-> data_to_send(wr_buf)]>>
            /\ wr_result' = write_report_match(ret)
    /\ UNCHANGED <<wr_type, wr_buf>>
    /\ UNCHANGED notWrite

-----------------------------------------------------------------------------
(***************************************************************************)
(* TryFlattenIter: the iterator try_flatten returns over an iterator of    *)
(* Result<collection, E>.                                                  *)
(***************************************************************************)

\* The items of the inner iterator: Err(e), in vals, or Ok(collection).
FlattenItems ==
    {[kind |-> "Err", vals |-> <<8>>], [kind |-> "Err", vals |-> <<9>>],
     [kind |-> "Ok", vals |-> <<>>], [kind |-> "Ok", vals |-> <<1>>],
     [kind |-> "Ok", vals |-> <<2, 3>>]}

\* The input of tests::test_try_flatten_iter.
test_try_flatten_iter_input ==
    <<[kind |-> "Err", vals |-> <<0>>], [kind |-> "Ok", vals |-> <<1, 2, 3>>],
      [kind |-> "Err", vals |-> <<4>>], [kind |-> "Ok", vals |-> <<5, 6, 7>>],
      [kind |-> "Err", vals |-> <<8>>], [kind |-> "Err", vals |-> <<9>>]>>

\* The inner iterators: every sequence of at most MaxItems items, and the
\* one of the test.
FlattenInputs ==
    UNION {SeqsOf(FlattenItems, n) : n \in 0..MaxItems} \cup {test_try_flatten_iter_input}

\* TryFlattenIter::next: the loop takes the next element of the current
\* collection, or drops the collection and takes the next item of the inner
\* iterator: none ends the iteration, Ok becomes the current collection, Err
\* is returned.  item is <<>> for None.
RECURSIVE try_flatten_next(_, _)
try_flatten_next(inner, current) ==
    IF current # <<>> /\ current[1] # <<>>
    THEN [item |-> <<[kind |-> "Ok", val |-> Head(current[1])]>>, inner |-> inner,
          current |-> <<Tail(current[1])>>]
    ELSE IF inner = <<>> THEN [item |-> <<>>, inner |-> inner, current |-> <<>>]
    ELSE IF Head(inner).kind = "Ok" THEN try_flatten_next(Tail(inner), <<Head(inner).vals>>)
    ELSE [item |-> <<[kind |-> "Err", val |-> Head(inner).vals[1]]>>, inner |-> Tail(inner),
          current |-> <<>>]

\* A variant of next that ends the iteration at the first Err item.
TryFlattenIter_next_until_err ==
    /\ tf_state = "iterating"
    /\ LET r == try_flatten_next(tf_inner, tf_current)
           stop == r.item = <<>> \/ r.item[1].kind = "Err"
       IN  /\ tf_inner' = r.inner
           /\ tf_current' = r.current
           /\ tf_out' = IF stop THEN tf_out ELSE tf_out \o r.item
           /\ tf_state' = IF stop THEN "ended" ELSE "iterating"
    /\ UNCHANGED tf_input
    /\ UNCHANGED notFlatten

\* One call of next by the consumer, which stops at the first None.
TryFlattenIter_next ==
    /\ tf_state = "iterating"
    /\ LET r == try_flatten_next(tf_inner, tf_current)
       IN  /\ tf_inner' = r.inner
           /\ tf_current' = r.current
           /\ tf_out' = tf_out \o r.item
           /\ tf_state' = IF r.item = <<>> THEN "ended" ELSE "iterating"
    /\ UNCHANGED tf_input
    /\ UNCHANGED notFlatten

\* A call of next after the iteration ended: the inner iterator is fused.
TryFlattenIter_next_after_end ==
    /\ tf_state = "ended"
    /\ LET r == try_flatten_next(tf_inner, tf_current)
       IN  /\ tf_inner' = r.inner
           /\ tf_current' = r.current
           /\ tf_out' = tf_out \o r.item
    /\ UNCHANGED <<tf_input, tf_state>>
    /\ UNCHANGED notFlatten

-----------------------------------------------------------------------------
(***************************************************************************)
(* Windows: IoBuffer<Writable>.  write first waits for an earlier write    *)
(* that was left pending and ignores its error, then fills the buffer,     *)
(* starts the new operation and waits for it.  iw_fut is the place of the  *)
(* future: "none", "flush" (the first wait_for_write_to_complete),         *)
(* "flush_await", "start" (fill and start_write), "complete" (the second   *)
(* wait_for_write_to_complete), "complete_await".                          *)
(***************************************************************************)

\* IoBuffer::write is called.
IoBuffer_write ==
    /\ iw_fut = "none"
    /\ iw_result # "PanicPending" /\ iw_result # "PanicCancel"
    /\ iw_writes < MaxWrites
    /\ iw_writes' = iw_writes + 1
    /\ iw_fut' = "flush"
    /\ iw_result' = "none"
    /\ UNCHANGED <<iw_pending, iw_op, iw_op_ok, iw_started, iw_failed>>
    /\ UNCHANGED notIow

\* wait_for_write_to_complete, one round of its loop: nothing to do when
\* pending is clear; else get_result()?: the size of a completed operation
\* clears pending, ERROR_IO_INCOMPLETE awaits the completion, another error
\* is returned with pending left set.
wait_for_write_to_complete(pending, op, op_ok) ==
    IF ~pending THEN [ret |-> "Ok", pending |-> FALSE]
    ELSE IF op = "inflight" THEN [ret |-> "Await", pending |-> TRUE]
    ELSE IF op = "done" /\ op_ok THEN [ret |-> "Ok", pending |-> FALSE]
    ELSE [ret |-> "Err", pending |-> TRUE]

\* write: self.wait_for_write_to_complete().await.unwrap_or_else(..): the
\* error of the abandoned write is logged and write goes on.
IoBuffer_write_flush ==
    /\ iw_fut = "flush"
    /\ LET r == wait_for_write_to_complete(iw_pending, iw_op, iw_op_ok)
       IN  /\ iw_pending' = r.pending
           /\ iw_fut' = IF r.ret = "Await" THEN "flush_await" ELSE "start"
    /\ UNCHANGED <<iw_op, iw_op_ok, iw_started, iw_result, iw_writes, iw_failed>>
    /\ UNCHANGED notIow

\* start_io for WriteFile: the assertion on pending, then the operation:
\* Ok or ERROR_IO_PENDING set pending; on another error cancel_io, whose
\* failure sets pending and panics.
IoBuffer_start_write(wf, res) ==
    /\ iw_fut = "start"
    /\ res \in CancelResults("none")
    /\ IF iw_pending
       THEN /\ iw_result' = "PanicPending"
            /\ iw_fut' = "none"
            /\ UNCHANGED <<iw_pending, iw_op, iw_op_ok, iw_started>>
       ELSE IF wf = "Ok"
       THEN /\ iw_pending' = TRUE
            /\ iw_op' = "done"
            /\ iw_op_ok' = TRUE
            /\ iw_fut' = "complete"
            /\ UNCHANGED <<iw_result, iw_started>>
       ELSE IF wf = "IO_PENDING"
       THEN /\ iw_pending' = TRUE
            /\ iw_op' = "inflight"
            /\ iw_started' = iw_started + 1
            /\ iw_fut' = "complete"
            /\ UNCHANGED <<iw_result, iw_op_ok>>
       ELSE /\ iw_pending' = ~cancel_io(res)
            /\ iw_op' = "none"
            /\ iw_result' = IF cancel_io(res) THEN "Err" ELSE "PanicCancel"
            /\ iw_fut' = "none"
            /\ UNCHANGED <<iw_op_ok, iw_started>>
    /\ UNCHANGED <<iw_writes, iw_failed>>
    /\ UNCHANGED notIow

\* write: self.wait_for_write_to_complete().await?: the write ends with Ok
\* or with the error of the completion.
IoBuffer_write_complete ==
    /\ iw_fut = "complete"
    /\ LET r == wait_for_write_to_complete(iw_pending, iw_op, iw_op_ok)
       IN  /\ iw_pending' = r.pending
           /\ iw_fut' = IF r.ret = "Await" THEN "complete_await" ELSE "none"
           /\ iw_result' = IF r.ret = "Await" THEN iw_result ELSE r.ret
           /\ iw_failed' = (iw_failed \/ r.ret = "Err")
    /\ UNCHANGED <<iw_op, iw_op_ok, iw_started, iw_writes>>
    /\ UNCHANGED notIow

\* The event is signalled and wait_for_completion returns: Ok goes round
\* the loop again; its error ends wait_for_write_to_complete with pending
\* left set, which the first wait ignores and the second returns.
write_wait_for_completion(ok) ==
    /\ iw_fut \in {"flush_await", "complete_await"}
    /\ iw_op = "done"
    /\ IF ok
       THEN /\ iw_fut' = IF iw_fut = "flush_await" THEN "flush" ELSE "complete"
            /\ UNCHANGED <<iw_result, iw_failed>>
       ELSE IF iw_fut = "flush_await"
       THEN /\ iw_fut' = "start"
            /\ UNCHANGED <<iw_result, iw_failed>>
       ELSE /\ iw_fut' = "none"
            /\ iw_result' = "Err"
            /\ iw_failed' = TRUE
    /\ UNCHANGED <<iw_pending, iw_op, iw_op_ok, iw_started, iw_writes>>
    /\ UNCHANGED notIow

\* The caller drops the write future while it awaits a completion.
IoBuffer_write_future_drop ==
    /\ iw_fut \in {"flush_await", "complete_await"}
    /\ iw_fut' = "none"
    /\ iw_result' = "Dropped"
    /\ UNCHANGED <<iw_pending, iw_op, iw_op_ok, iw_started, iw_writes, iw_failed>>
    /\ UNCHANGED notIow

\* The kernel completes the write, with or without an error.
kernel_complete_write(ok) ==
    /\ iw_op = "inflight"
    /\ iw_op' = "done"
    /\ iw_op_ok' = ok
    /\ iw_started' = iw_started - 1
    /\ UNCHANGED <<iw_pending, iw_fut, iw_result, iw_writes, iw_failed>>
    /\ UNCHANGED notIow

-----------------------------------------------------------------------------
(***************************************************************************)
(* WinRT: what InputReceiver::read_input_report does with a report it has  *)
(* received from the channel.                                              *)
(***************************************************************************)

\* The bytes of a report: 0x00 and two other values.
ReportBytes == {0, 1, 2}

\* The reports HidInputReport::Data can hold, the empty one included.
InputReports == UNION {SeqsOf(ReportBytes, n) : n \in 0..MaxReportLen}

\* The caller's buffers, filled with a byte no report holds.
CallerBuffers == {[i \in 1..m |-> 1 + MaxReportLen + MaxBufLen] : m \in 0..MaxBufLen}

\* let start = if buffer[0] == 0x0 { 1 } else { 0 };
report_start(buffer) == IF buffer[1] = 0 THEN 1 ELSE 0

\* The body of read_input_report after recv: an empty report is an error;
\* size - start below zero overflows (a panic in a debug build, and a slice
\* index out of range in a release build); otherwise buffer[start..size] is
\* copied to the front of buf and size - start returned.
read_input_report_body(buffer, buf) ==
    IF buffer = <<>>
    THEN [kind |-> "Message", n |-> 0, buf |-> buf]
    ELSE LET size == Min(Len(buf), Len(buffer))
             start == report_start(buffer)
         IN  IF size < start
             THEN [kind |-> "Panic", n |-> 0, buf |-> buf]
             ELSE [kind |-> "Ok", n |-> size - start,
                   buf |-> SubSeq(buffer, start + 1, size)
                           \o SubSeq(buf, size - start + 1, Len(buf))]

\* AsyncHidRead::read_input_report on the InputReceiver, from the report
\* that recv returned to the end of the call.
InputReceiver_copy_report ==
    /\ rr_state = "received"
    /\ LET r == read_input_report_body(rr_report, rr_buf) IN
        /\ rr_state' = IF r.kind = "Panic" THEN "panicked" ELSE "returned"
        /\ rr_result' = [kind |-> r.kind, n |-> r.n]
        /\ rr_buf' = r.buf
    /\ UNCHANGED rr_report
    /\ UNCHANGED notRtread

-----------------------------------------------------------------------------
(***************************************************************************)
(* Initial states and specifications.  A target names the backend that is  *)
(* compiled in; "none" is a subsystem the specification does not use.      *)
(***************************************************************************)

\* IoHidManagerBackend::default / no DeviceNotificationStream exists yet.
WatchStart(t) ==
    /\ w_target = t
    /\ next_id = 0
    /\ watchers = <<>>
    /\ devices = [p \in DevPtrs |-> None]
    /\ live = {}
    /\ queues = [w \in WatcherIds |-> AsyncQueue_new]
    /\ attached = [p \in DevPtrs |-> [id |-> None, ok |-> FALSE]]
    /\ sent = [w \in WatcherIds |-> <<>>]
    /\ received = [w \in WatcherIds |-> <<>>]
    /\ lagged = [w \in WatcherIds |-> FALSE]
    /\ popped_at = [w \in WatcherIds |-> -1]
    /\ n_events = 0

\* AsyncReportReaderInner::default / InputReceiver::new: the device has just
\* been opened for reading.
ReaderStart(t) ==
    /\ r_target = t
    /\ full_buffers = <<>>
    /\ empty_buffers = 0
    /\ removed = FALSE
    /\ r_waker = FALSE
    /\ active_reader = (t = "winrt")
    /\ c_pc = "none"
    /\ c_buf = 1
    /\ c_notified = FALSE
    /\ c_due = FALSE
    /\ cb_pc = [at |-> "idle", len |-> 0]
    /\ last_result = [kind |-> "none", seq |-> 0, n |-> 0]
    /\ arrived = 0
    /\ delivered = <<>>
    /\ n_evicted = 0
    /\ removal_reported = FALSE
    /\ removal_done = FALSE
    /\ reads_after_removal = 0
    /\ d_pc = "alive"
    /\ cancel_fired = FALSE
    /\ scratch_freed = FALSE
    /\ inner_freed = FALSE

\* HandleWaiter::new.
WaiterStart(alive) ==
    /\ hw_alive = alive
    /\ registration = "invalid"
    /\ wait_obj = "none"
    /\ pending_delete = FALSE
    /\ event_signalled = FALSE
    /\ complete = FALSE
    /\ hw_waker = FALSE
    /\ hw_notified = FALSE
    /\ hw_inner_freed = FALSE
    /\ f_state = "none"
    /\ f_pc = "idle"
    /\ wait_result = "none"
    /\ panicked = FALSE
    /\ returned_during_callback = FALSE

\* IoBuffer::new(device, BufSize).
IoStart(alive) ==
    /\ io_alive = alive
    /\ io_pending = FALSE
    /\ io_buffer = [i \in 1..BufSize |-> 0]
    /\ io_buffer_freed = FALSE
    /\ io_overlapped_freed = FALSE
    /\ io_op = "none"
    /\ io_op_ok = FALSE
    /\ io_n = 0
    /\ io_event = FALSE
    /\ io_wait = FALSE
    /\ io_fut = "none"
    /\ io_out_len = 0
    /\ io_result = [kind |-> "none", n |-> 0, out |-> <<>>]
    /\ io_panicked = FALSE
    /\ io_fut_dropped = FALSE
    /\ io_dropped_pending = FALSE
    /\ io_drop_cancel = "none"

IoIdle == IoStart(FALSE)

\* No device has been opened.
OpenStart(t) ==
    /\ o_target = t
    /\ opens = [h \in OpenIds |-> NoOpen]

OpenIdle == OpenStart("none")

\* IoHidManagerBackend::default: one handle, an empty context.
TeardownStart(exists) ==
    /\ m_exists = exists
    /\ m_handles = IF exists THEN {1} ELSE {}
    /\ m_strong = IF exists THEN 1 ELSE 0
    /\ m_next_id = 0
    /\ m_list = <<>>
    /\ m_w = [w \in ManagerWatchers |-> "none"]
    /\ m_cb = FALSE
    /\ m_drop = "none"
    /\ m_cancel_fired = FALSE
    /\ m_ctx_freed = FALSE
    /\ m_last_ref = "none"
    /\ m_uaf = FALSE

TeardownIdle == TeardownStart(FALSE)

\* Backend::watch has returned the stream; nothing has been polled.
StreamStart(t) ==
    /\ s_target = t
    /\ s_sock = <<>>
    /\ s_items = <<>>
    /\ s_closed = FALSE
    /\ s_chain = "first"
    /\ s_last = "none"
    /\ s_polls = {}

StreamIdle == StreamStart("none")

\* A DeviceId has been obtained for an attached device.
IdentStart(t) ==
    /\ q_target = t
    /\ q_present = "attached"
    /\ q_calls = {}

IdentIdle == IdentStart("none")

\* Before enumerate is called, with the entries present.
EnumStart(t, entries) ==
    /\ e_target = t
    /\ e_entries = entries
    /\ e_pc = "idle"
    /\ e_stream = <<>>
    /\ e_yielded = <<>>

EnumIdle == EnumStart("none", <<>>)

\* HidrawReportDescriptor::usages: the cursor at 0, usage_page 0.
DescStart(t, bytes) ==
    /\ hd_target = t
    /\ hd_bytes = bytes
    /\ hd_pos = 0
    /\ hd_usage_page = 0
    /\ hd_state = "idle"
    /\ hd_out = <<>>
    /\ hd_items = 0
    /\ hd_query = "none"
    /\ hd_infos = <<>>

DescIdle == DescStart("none", <<>>)

\* A datagram has been received and is about to be parsed.
UeventStart(state, p) ==
    /\ ue_shape = p
    /\ ue_bytes = (IF state = "none" THEN <<>> ELSE DatagramBytes(p))
    /\ ue_state = state
    /\ ue_result = UEvent_Err
    /\ ue_event = [kind |-> "None", id |-> <<>>]

UeventIdle ==
    UeventStart("none", [frame |-> "udev_short", magic |-> UDEV_MONITOR_MAGIC,
                         off |-> <<40, 0, 0, 0>>, action |-> <<>>, subsystem |-> <<>>,
                         dev_path |-> <<>>, extra |-> <<>>, reversed |-> FALSE])

\* write_output_report / write_feature_report has been called with buf.
WriteStart(state, type, buf) ==
    /\ wr_state = state
    /\ wr_type = type
    /\ wr_buf = buf
    /\ wr_call = <<>>
    /\ wr_result = "None"

WriteIdle == WriteStart("none", "Output", <<>>)

\* try_flatten has wrapped the inner iterator: current is None.
FlattenStart(state, input) ==
    /\ tf_input = input
    /\ tf_inner = input
    /\ tf_current = <<>>
    /\ tf_out = <<>>
    /\ tf_state = state

FlattenIdle == FlattenStart("none", <<>>)

\* IoBuffer::new for a writer; writes counts the calls made so far.
IowStart(writes) ==
    /\ iw_pending = FALSE
    /\ iw_op = "none"
    /\ iw_op_ok = FALSE
    /\ iw_started = 0
    /\ iw_fut = "none"
    /\ iw_result = "none"
    /\ iw_writes = writes
    /\ iw_failed = FALSE

IowIdle == IowStart(MaxWrites)

\* recv has returned report to a read_input_report called with buf.
RtreadStart(state, report, buf) ==
    /\ rr_state = state
    /\ rr_report = report
    /\ rr_buf = buf
    /\ rr_result = [kind |-> "None", n |-> 0]

RtreadIdle == RtreadStart("none", <<>>, <<>>)

\* The subsystems a specification does not use stay as they start.
MoreIdle(used) ==
    /\ IF used = "io" THEN TRUE ELSE IoIdle
    /\ IF used = "open" THEN TRUE ELSE OpenIdle
    /\ IF used = "teardown" THEN TRUE ELSE TeardownIdle
    /\ IF used = "stream" THEN TRUE ELSE StreamIdle
    /\ IF used = "ident" THEN TRUE ELSE IdentIdle
    /\ IF used = "enum" THEN TRUE ELSE EnumIdle
    /\ IF used = "desc" THEN TRUE ELSE DescIdle
    /\ IF used = "uevent" THEN TRUE ELSE UeventIdle
    /\ IF used = "write" THEN TRUE ELSE WriteIdle
    /\ IF used = "flatten" THEN TRUE ELSE FlattenIdle
    /\ IF used = "iow" THEN TRUE ELSE IowIdle
    /\ IF used = "rtread" THEN TRUE ELSE RtreadIdle

WatchInit ==
    /\ \E t \in {"macos", "win32"} : WatchStart(t)
    /\ ReaderStart("none")
    /\ WaiterStart(FALSE)
    /\ MoreIdle("none")

WatchNext ==
    \/ DeviceWatcher_new
    \/ \E w \in WatcherIds : DeviceWatcher_drop(w)
    \/ \E p \in DevPtrs, id \in DevIds, ok \in BOOLEAN : added_callback(p, id, ok)
    \/ \E p \in DevPtrs : removed_callback(p)
    \/ \E p \in DevPtrs : removed_callback_repeated(p)
    \/ \E w \in WatcherIds : DeviceWatcher_poll_next(w)
    \/ \E w \in WatcherIds, r \in BOOLEAN : DeviceNotificationStream_new(w, r)
    \/ \E w \in WatcherIds : DeviceNotificationStream_drop(w)
    \/ \E w \in WatcherIds, n \in Notifications : callback(w, n.action, n.link)
    \/ \E w \in WatcherIds : DeviceNotificationStream_poll_next(w)

SpecWatch == WatchInit /\ [][WatchNext]_vars

ReaderInit ==
    /\ WatchStart("none")
    /\ \E t \in {"macos", "winrt"} : ReaderStart(t)
    /\ WaiterStart(FALSE)
    /\ MoreIdle("none")

ReaderNext ==
    \/ \E len \in ReportLens : read_input_report(len)
    \/ read_poll_register
    \/ read_poll_pop
    \/ read_poll_load_removed
    \/ read_future_drop
    \/ \E len \in ReportLens : hid_report_callback_enter(len)
    \/ hid_report_callback_push
    \/ hid_report_callback_wake
    \/ hid_removal_callback_store
    \/ hid_removal_callback_wake
    \/ DeviceReadWriter_drop_cancel
    \/ cancel_handler
    \/ DeviceReadWriter_drop_free
    \/ DeviceReadWriter_drop_close
    \/ \E len \in ReportLens, ok \in BOOLEAN : InputReportReceived_handler(len, ok)
    \/ \E id \in DevIds, ok \in BOOLEAN : Removed_handler(id, ok)
    \/ \E len \in ReportLens : InputReceiver_read_input_report(len)
    \/ InputReceiver_poll
    \/ InputReceiver_drop

SpecReader == ReaderInit /\ [][ReaderNext]_vars

WaiterInit ==
    /\ WatchStart("none")
    /\ ReaderStart("none")
    /\ WaiterStart(TRUE)
    /\ MoreIdle("none")

WaiterNext ==
    \/ event_signal
    \/ event_reset
    \/ HandleWaiter_wait
    \/ \E registered \in BOOLEAN, stale_ok \in BOOLEAN :
           HandleFuture_poll_begin(registered, stale_ok)
    \/ HandleFuture_poll_register
    \/ \E stale_ok \in BOOLEAN : HandleFuture_poll_load(stale_ok)
    \/ \E stale_ok \in BOOLEAN : HandleFuture_drop(stale_ok)
    \/ \E stale_ok \in BOOLEAN : HandleWaiter_drop(stale_ok)
    \/ callback_func_enter
    \/ callback_func_store
    \/ callback_func_wake
    \/ callback_func_return

SpecWaiter == WaiterInit /\ [][WaiterNext]_vars

IoInit ==
    /\ WatchStart("none")
    /\ ReaderStart("none")
    /\ WaiterStart(FALSE)
    /\ IoStart(TRUE)
    /\ MoreIdle("io")

IoNext ==
    \/ \E m \in 0..BufSize : IoBuffer_read(m)
    \/ \E rf \in {"Ok", "IO_PENDING", "Err"}, n \in 0..BufSize, res \in {"NOT_FOUND", "Other"} :
           \E bytes \in SeqsOf(Bytes, n) : IoBuffer_start_read(rf, n, bytes, res)
    \/ IoBuffer_get_result
    \/ \E ok \in BOOLEAN : wait_for_completion(ok)
    \/ IoBuffer_read_future_drop
    \/ \E n \in 0..BufSize, ok \in BOOLEAN :
           \E bytes \in SeqsOf(Bytes, n) : kernel_complete(n, bytes, ok)
    \/ \E res \in {"Ok", "NOT_FOUND", "Other"} : IoBuffer_drop(res)

SpecIo == IoInit /\ [][IoNext]_vars

OpenInit ==
    /\ WatchStart("none")
    /\ ReaderStart("none")
    /\ WaiterStart(FALSE)
    /\ \E t \in {"hidraw", "macos", "winrt"} : OpenStart(t)
    /\ MoreIdle("open")

OpenNext ==
    \/ \E h \in OpenIds, call \in OpenCalls, os_ok \in BOOLEAN : Device_open_call(h, call, os_ok)
    \/ \E h \in OpenIds : DeviceReader_drop(h)
    \/ \E h \in OpenIds : DeviceWriter_drop(h)

SpecOpen == OpenInit /\ [][OpenNext]_vars

TeardownInit ==
    /\ WatchStart("none")
    /\ ReaderStart("none")
    /\ WaiterStart(FALSE)
    /\ TeardownStart(TRUE)
    /\ MoreIdle("teardown")

TeardownNext ==
    \/ \E b \in BackendHandles : IoHidManagerBackend_clone(b)
    \/ \E b \in BackendHandles : IoHidManagerBackend_drop(b)
    \/ IoHidManagerBackend_watch
    \/ \E w \in ManagerWatchers : DeviceWatcher_poll(w)
    \/ \E w \in ManagerWatchers : DeviceWatcher_drop_body(w)
    \/ \E w \in ManagerWatchers : DeviceWatcher_drop_fields(w)
    \/ manager_callback_enter
    \/ manager_callback_return
    \/ manager_cancel_handler
    \/ IoHidManagerBackendInner_drop_free

SpecTeardown == TeardownInit /\ [][TeardownNext]_vars

StreamInit ==
    /\ WatchStart("none")
    /\ ReaderStart("none")
    /\ WaiterStart(FALSE)
    /\ \E t \in {"hidraw", "macos", "winrt"} : StreamStart(t)
    /\ MoreIdle("stream")

StreamNext ==
    \/ \E ev \in Datagrams : netlink_arrive(ev)
    \/ HidRawBackend_watch_poll
    \/ \E kind \in {"Connected", "Disconnected"} : watch_event_push(kind)
    \/ watch_channel_close
    \/ IoHidManagerBackend_watch_poll
    \/ WinRtBackend_watch_poll

SpecStream == StreamInit /\ [][StreamNext]_vars

IdentInit ==
    /\ WatchStart("none")
    /\ ReaderStart("none")
    /\ WaiterStart(FALSE)
    /\ \E t \in {"hidraw", "macos", "winrt"} : IdentStart(t)
    /\ MoreIdle("ident")

IdentNext ==
    \/ device_unplug
    \/ device_replug
    \/ \E os \in AttachedAnswers \cup GoneAnswers(q_target) : Device_open_id(os)
    \/ \E os \in AttachedAnswers \cup GoneAnswers(q_target) : HidBackend_query_devices(os)

SpecIdent == IdentInit /\ [][IdentNext]_vars

EnumInit ==
    /\ WatchStart("none")
    /\ ReaderStart("none")
    /\ WaiterStart(FALSE)
    /\ \E t \in {"hidraw", "macos"} :
           \E entries \in EntryLists(t, MaxEntries) : EnumStart(t, entries)
    /\ MoreIdle("enum")

EnumNext ==
    \/ Backend_enumerate
    \/ HidBackend_enumerate_next

SpecEnum == EnumInit /\ [][EnumNext]_vars

DescInit ==
    /\ WatchStart("none")
    /\ ReaderStart("none")
    /\ WaiterStart(FALSE)
    /\ \/ \E bytes \in Descriptors : DescStart("hidraw", bytes)
       \/ DescStart("macos", <<>>)
    /\ MoreIdle("desc")

DescNext ==
    \/ UsageIterator_next
    \/ \E readable \in BOOLEAN : get_device_info_raw_results(readable)
    \/ \E primary \in UsagePairs, pairs \in UsagePairArrays :
           get_device_info_results(primary, pairs)

SpecDesc == DescInit /\ [][DescNext]_vars

UeventInit ==
    /\ WatchStart("none")
    /\ ReaderStart("none")
    /\ WaiterStart(FALSE)
    /\ \E p \in UEventShapes : UeventStart("received", p)
    /\ MoreIdle("uevent")

UeventNext ==
    \/ UEvent_parse_call
    \/ HidRawBackend_watch_iteration

SpecUevent == UeventInit /\ [][UeventNext]_vars

WriteInit ==
    /\ WatchStart("none")
    /\ ReaderStart("none")
    /\ WaiterStart(FALSE)
    /\ \E type \in {"Output", "Feature"}, buf \in WriteBuffers : WriteStart("called", type, buf)
    /\ MoreIdle("write")

WriteNext ==
    \E ret \in IOReturns : DeviceReadWriter_write_report(ret)

SpecWrite == WriteInit /\ [][WriteNext]_vars

FlattenInit ==
    /\ WatchStart("none")
    /\ ReaderStart("none")
    /\ WaiterStart(FALSE)
    /\ \E input \in FlattenInputs : FlattenStart("iterating", input)
    /\ MoreIdle("flatten")

FlattenNext ==
    \/ TryFlattenIter_next
    \/ TryFlattenIter_next_after_end

SpecFlatten == FlattenInit /\ [][FlattenNext]_vars

IowInit ==
    /\ WatchStart("none")
    /\ ReaderStart("none")
    /\ WaiterStart(FALSE)
    /\ IowStart(0)
    /\ MoreIdle("iow")

IowNext ==
    \/ IoBuffer_write
    \/ IoBuffer_write_flush
    \/ \E wf \in {"Ok", "IO_PENDING", "Err"}, res \in {"NOT_FOUND", "Other"} :
           IoBuffer_start_write(wf, res)
    \/ IoBuffer_write_complete
    \/ \E ok \in BOOLEAN : write_wait_for_completion(ok)
    \/ IoBuffer_write_future_drop
    \/ \E ok \in BOOLEAN : kernel_complete_write(ok)

SpecIow == IowInit /\ [][IowNext]_vars

RtreadInit ==
    /\ WatchStart("none")
    /\ ReaderStart("none")
    /\ WaiterStart(FALSE)
    /\ \E report \in InputReports, buf \in CallerBuffers : RtreadStart("received", report, buf)
    /\ MoreIdle("rtread")

RtreadNext ==
    InputReceiver_copy_report

SpecRtread == RtreadInit /\ [][RtreadNext]_vars

-----------------------------------------------------------------------------
(***************************************************************************)
(* Properties of the device-event fan-out.                                 *)
(***************************************************************************)

\* The events stream w was sent while it exists, and what it holds of them.
Sent(w) == EventsOf(sent[w])
Seen(w) == received[w] \o queues[w].items

\* How many occurrences of the given kind and id are in s; resolved_only
\* leaves out those whose device id could not be resolved.
Occurrences(s, kind, id, resolved_only) ==
    Cardinality({i \in 1..Len(s) :
        /\ s[i].kind = kind
        /\ s[i].id = id
        /\ (resolved_only => s[i].ok)})

\* C1: broadcasting an event never waits on a subscriber: whatever the
\* queues hold and whether or not the subscribers poll, the manager's
\* added/removed callbacks (macOS) and the notification callback (Windows)
\* can run to completion for every occurrence the OS may report, and every
\* subscriber queue holds at most its capacity.
C1_BroadcastNeverBlocks ==
    /\ \A w \in WatcherIds : Len(queues[w].items) <= QueueCap
    /\ (w_target = "macos" /\ n_events < MaxEvents) =>
        /\ \A p \in DevPtrs, id \in DevIds, ok \in BOOLEAN :
            (attached[p].id = None /\ \A q \in DevPtrs : attached[q].id # id)
                => ENABLED added_callback(p, id, ok)
        /\ \A p \in DevPtrs :
            attached[p].id # None => ENABLED removed_callback(p)
    /\ (w_target = "win32" /\ n_events < MaxEvents) =>
        \A w \in live, n \in Notifications : ENABLED callback(w, n.action, n.link)

\* C1 witness: the queue of a subscriber that has never received an event
\* is full, and a further occurrence is there to be broadcast.
C1_Witness ==
    \E w \in live :
        /\ received[w] = <<>>
        /\ Len(queues[w].items) = QueueCap
        /\ n_events < MaxEvents

\* C2: a full queue discards its oldest event for the new one: as long as
\* no event has been sent since a subscriber's first pop (and before it has
\* popped at all), what it has received followed by what is still queued is
\* exactly the last QueueCap events sent to it, in the order sent.
C2_DropOldest ==
    \A w \in live :
        popped_at[w] \in {-1, Len(Sent(w))} =>
            Seen(w) = LastN(Sent(w), Min(QueueCap, Len(Sent(w))))

\* C2 witness: a subscriber that did not poll while more than QueueCap
\* events were sent has drained its queue and received QueueCap events.
C2_Witness ==
    \E w \in live :
        /\ popped_at[w] = Len(Sent(w))
        /\ Len(Sent(w)) > QueueCap
        /\ queues[w].items = <<>>
        /\ Len(received[w]) = QueueCap

\* C3: a subscriber that never falls more than QueueCap events behind
\* receives every event broadcast while it exists exactly once and in
\* broadcast order, whatever the other subscribers do.
C3_ActiveSubscriberUnaffected ==
    \A w \in live : ~lagged[w] => Seen(w) = Sent(w)

\* C3 witness: on macOS, one subscriber has never received anything and has
\* lost events to overflow, while the other has received more than QueueCap
\* events without ever lagging.
C3_Witness ==
    /\ w_target = "macos"
    /\ \E w \in live, v \in live :
        /\ w # v
        /\ lagged[v] /\ received[v] = <<>> /\ Len(queues[v].items) = QueueCap
        /\ ~lagged[w] /\ Len(received[w]) > QueueCap

-----------------------------------------------------------------------------
(***************************************************************************)
(* Properties of the report readers.                                       *)
(***************************************************************************)
StrictlyIncreasing(s) == \A i \in 1..(Len(s) - 1) : s[i] < s[i + 1]

\* The arrival numbers of the reports the ring holds, oldest first.
Queued == [i \in 1..Len(full_buffers) |-> full_buffers[i].seq]

\* How many reports the report callback has pushed onto the ring.
Pushed == IF cb_pc.at = "report_written" THEN arrived - 1 ELSE arrived

\* The consumer sleeps: its read returned Pending and it has not been woken.
Asleep == c_pc = "pending" /\ ~c_notified

\* C5: on the macOS reader the reports returned so far, followed by the
\* reports still queued, are in strictly increasing arrival order (in
\* order, no duplicate), each is a report that arrived, and every report
\* the callback pushed is returned, queued or was evicted by the full ring.
C5_DeliveredInArrivalOrder ==
    r_target = "macos" =>
        /\ StrictlyIncreasing(delivered \o Queued)
        /\ \A i \in 1..Len(delivered) : delivered[i] \in 1..arrived
        /\ Len(delivered) + Len(full_buffers) + n_evicted = Pushed
        /\ Len(full_buffers) <= QueueCap

\* C5 witness: the ring has evicted a report and two reports have been
\* returned.
C5_Witness ==
    /\ r_target = "macos"
    /\ n_evicted > 0
    /\ Len(delivered) >= 2

\* C6: no wakeup is lost on the macOS read path: a sleeping consumer has
\* its waker registered; when a report is queued or removed is set while
\* it sleeps, the callback that did so is still before its wake; and a poll
\* that begins with a report queued or removed set does not end Pending.
C6_NoLostWakeup ==
    r_target = "macos" =>
        /\ Asleep => r_waker
        /\ (Asleep /\ (full_buffers # <<>> \/ removed)) =>
               cb_pc.at \in {"report_pushed", "removal_stored"}
        /\ c_pc = "pending" => ~c_due

\* C6 witness: the consumer, Pending on an empty ring, has been woken and a
\* report is queued for its next poll.
C6_Witness ==
    /\ r_target = "macos"
    /\ c_pc = "pending"
    /\ c_notified
    /\ full_buffers # <<>>

\* C7 as stated: the first read issued after the removal callback has
\* returned completes with Disconnected.
C7_FirstReadDisconnected ==
    (r_target = "macos" /\ reads_after_removal = 1 /\ last_result.kind # "none")
        => last_result.kind = "Disconnected"

\* C7: a read issued after the removal callback has returned never ends a
\* poll Pending; it completes with the oldest queued report while the ring
\* is not empty and with Disconnected once the ring is empty.
C7_DrainThenDisconnected ==
    /\ [](r_target = "macos" /\ reads_after_removal >= 1
             => c_pc # "pending" /\ last_result.kind # "Pending")
    /\ [][(/\ r_target = "macos"
           /\ reads_after_removal >= 1
           /\ c_pc \in {"registered", "popped_none"}
           /\ c_pc' = "none")
             => last_result'.kind = IF full_buffers # <<>> THEN "Ok"
                                    ELSE "Disconnected"]_vars

\* C7 witness: after the removal a first read returned a queued report and
\* a later read completed with Disconnected.
C7_Witness ==
    /\ r_target = "macos"
    /\ reads_after_removal = 2
    /\ last_result.kind = "Disconnected"
    /\ delivered # <<>>

C9_FreedOnlyAfterCancel ==
    r_target = "macos" =>
        /\ (scratch_freed \/ inner_freed) => cancel_fired
        /\ d_pc = "closed" => (scratch_freed /\ inner_freed)
        /\ cb_pc.at # "idle" => ~inner_freed
        /\ cb_pc.at = "report_written" => ~scratch_freed

\* C9 witness: the reader has been dropped and closed after its removal
\* was reported, with a report still in the ring.
C9_Witness ==
    /\ r_target = "macos"
    /\ d_pc = "closed"
    /\ removal_done
    /\ full_buffers # <<>>

-----------------------------------------------------------------------------
(***************************************************************************)
(* Properties of the thread-pool wait.                                     *)
(***************************************************************************)

\* C10 as stated: no unregister returns while the wait callback is in
\* flight, and the callback is never in flight once the
\* WaitableHandleFutureInner has been freed.
C10_UnregisterWaitsForCallback ==
    /\ ~returned_during_callback
    /\ hw_inner_freed => wait_obj \notin InCallback

-----------------------------------------------------------------------------
(***************************************************************************)
(* Properties of the Windows IoBuffer.                                     *)
(***************************************************************************)

\* The report in the bytes a read transferred: without its leading 0x00.
Payload(data) == IF data # <<>> /\ data[1] = 0 THEN Tail(data) ELSE data

\* C11 as stated: an IoBuffer dropped with an operation pending calls
\* CancelIoEx; on success or ERROR_NOT_FOUND the buffer and the OVERLAPPED
\* are freed, on another error the drop panics and both stay allocated; and
\* they are never freed while the kernel may still write to them.
C11_DropCancelsOrLeaks ==
    /\ io_dropped_pending => io_drop_cancel # "none"
    /\ (io_dropped_pending /\ io_drop_cancel \in {"Ok", "NOT_FOUND"})
           => (io_buffer_freed /\ io_overlapped_freed)
    /\ (io_dropped_pending /\ io_drop_cancel = "Other")
           => (io_panicked /\ ~io_buffer_freed /\ ~io_overlapped_freed)
    /\ (io_buffer_freed \/ io_overlapped_freed) => io_op \notin InFlight

\* C12 as stated: once a read future has been dropped while it awaited the
\* completion of its overlapped read, that read is no longer outstanding
\* without a cancellation requested, and no thread-pool wait is registered.
C12_FutureDropLeavesNoIo ==
    (io_fut_dropped /\ io_fut = "none") => (io_op # "inflight" /\ ~io_wait)

\* C13 as stated: a read whose operation completed with n bytes,
\* 0 <= n <= BufSize, returns Ok(min(payload length, m)) with that many
\* bytes of the payload (the data without a leading 0x00) copied, and
\* clears pending.
C13_ReadStripsAndCopies ==
    io_result.kind \in {"Ok", "Panic"} =>
        LET payload == Payload(SubSeq(io_buffer, 1, io_n)) IN
        /\ io_result.kind = "Ok"
        /\ io_result.n = Min(Len(payload), io_out_len)
        /\ io_result.out = SubSeq(payload, 1, io_result.n)
        /\ ~io_pending

\* C35: in every sequence of writes, futures dropped while awaiting and
\* completions with an error included, start_io is entered with pending
\* clear, so its assertion never fires, and at most one overlapped
\* operation of the IoBuffer is outstanding.
C35_StartIoOnlyWhenNotPending ==
    /\ iw_result # "PanicPending"
    /\ iw_started <= 1

\* C36: a dropped IoBuffer has released its buffer and its OVERLAPPED with
\* the event, except when the cancellation of a pending operation failed;
\* in particular when it was dropped with no operation pending.
C36_DropReleasesEverything ==
    (~io_alive /\ ~(io_dropped_pending /\ io_drop_cancel = "Other"))
        => (io_buffer_freed /\ io_overlapped_freed)

-----------------------------------------------------------------------------
(***************************************************************************)
(* Properties of open and of the halves.                                   *)
(***************************************************************************)

\* How many halves of the open call o the caller holds.
HalvesHeld(o) == (IF o.reader THEN 1 ELSE 0) + (IF o.writer THEN 1 ELSE 0)

\* C14: on hidraw and macOS the handle of a successful open is shared by
\* the halves the caller holds: it is open, and never yet closed, while a
\* half is alive; it has been closed exactly once when none is left; and
\* its reference count is the number of halves alive.
C14_HandleClosedWithLastHalf ==
    o_target \in {"hidraw", "macos"} =>
        \A h \in OpenIds :
            opens[h].ret = "Ok" =>
                /\ opens[h].strong = HalvesHeld(opens[h])
                /\ HalvesHeld(opens[h]) > 0 =>
                       (opens[h].handle = "open" /\ opens[h].closes = 0)
                /\ HalvesHeld(opens[h]) = 0 =>
                       (opens[h].handle = "closed" /\ opens[h].closes = 1)

\* C14 witness: of one open the reader has been dropped and the writer
\* still holds the open handle; of another both halves have been dropped.
C14_Witness ==
    /\ o_target \in {"hidraw", "macos"}
    /\ opens[1].call = "open" /\ opens[1].ret = "Ok"
    /\ ~opens[1].reader /\ opens[1].writer /\ opens[1].handle = "open"
    /\ opens[2].call = "open" /\ opens[2].ret = "Ok"
    /\ ~opens[2].reader /\ ~opens[2].writer /\ opens[2].closes = 1

\* C17 as stated: on every backend a successful open(id, read, write)
\* returns a reader exactly when read and a writer exactly when write, and
\* no facade call panics on an unwrap.
C17_HalvesAsRequested ==
    \A h \in OpenIds :
        opens[h].ret = "Ok" =>
            /\ opens[h].got_r = opens[h].read
            /\ opens[h].got_w = opens[h].write
            /\ opens[h].result # "Panic"

\* C18: every open the facade makes asks for read or for write, and every
\* open that succeeded returned at least one half.
C18_NoOpenWithNeitherAccess ==
    \A h \in OpenIds :
        opens[h].call # "none" =>
            /\ opens[h].read \/ opens[h].write
            /\ opens[h].result = "Ok" => (opens[h].got_r \/ opens[h].got_w)

\* C18 witness: open_writeable, the call that asks for one access only,
\* has succeeded and the caller holds its writer.
C18_Witness ==
    \E h \in OpenIds :
        /\ opens[h].call = "open_writeable"
        /\ opens[h].result = "Ok"
        /\ ~opens[h].read
        /\ opens[h].writer

-----------------------------------------------------------------------------
(***************************************************************************)
(* Properties of the manager's lifetime.                                   *)
(***************************************************************************)

\* The DeviceWatchers that still hold their backend reference.
Holding == {w \in ManagerWatchers : m_w[w] \in {"alive", "unregistered"}}

\* C15: the callback context is freed only after every backend handle and
\* every DeviceWatcher has been dropped and the cancel handler has fired;
\* no poll, drop or callback uses it afterwards; and the watcher list holds
\* exactly the ids of the watchers not yet dropped, each once, in the order
\* of their registration.
C15_ContextOutlivesStreams ==
    /\ m_strong = Cardinality(m_handles) + Cardinality(Holding)
    /\ m_ctx_freed => (m_handles = {} /\ Holding = {} /\ m_cancel_fired)
    /\ m_cb => ~m_ctx_freed
    /\ ~m_uaf
    /\ \A w \in ManagerWatchers : CountIn(m_list, w) = (IF m_w[w] = "alive" THEN 1 ELSE 0)
    /\ \A i \in 1..(Len(m_list) - 1) : m_list[i] < m_list[i + 1]

\* C15 witness: two watchers were created, the program dropped its handles
\* while a watcher lived, and the drop of a watcher released the last
\* reference and freed the context.
C15_Witness ==
    /\ m_ctx_freed
    /\ m_last_ref = "watcher"
    /\ m_next_id = 2

-----------------------------------------------------------------------------
(***************************************************************************)
(* Properties of the watch stream.                                         *)
(***************************************************************************)

\* C16: on every backend each poll of the watch stream returns an event or
\* Pending: never the end of the stream and never a panic, whatever the
\* socket delivered (receive errors, unparsable uevents, events of other
\* subsystems) and also after the subscriber's channel was closed.
C16_WatchNeverEnds ==
    s_polls \subseteq {"Connected", "Disconnected", "Pending"}

-----------------------------------------------------------------------------
(***************************************************************************)
(* Properties of a stale DeviceId.                                         *)
(***************************************************************************)

\* C19: open and query_devices on a DeviceId whose device is no longer
\* attached fail with NotConnected, not with Other or Message (nor any
\* other result).
C19_StaleIdNotConnected ==
    \A c \in q_calls : c.present = "gone" => c.result = "NotConnected"

-----------------------------------------------------------------------------
(***************************************************************************)
(* Properties of enumeration.                                              *)
(***************************************************************************)

\* The DeviceInfos of the entries from the i-th on that can be resolved and
\* read.
RECURSIVE PresentInfos(_, _)
PresentInfos(entries, i) ==
    IF i > Len(entries) THEN <<>>
    ELSE (IF entries[i].kind = "ok"
          THEN [u \in 1..entries[i].usages |-> [kind |-> "Ok", entry |-> i, usage |-> u]]
          ELSE <<>>) \o PresentInfos(entries, i + 1)

\* C20: an entry that cannot be resolved or read affects only itself:
\* enumerate does not fail because of it, and the finished stream has
\* yielded the DeviceInfo of every other entry.
C20_EnumerationErrorsPerItem ==
    /\ e_pc # "failed"
    /\ e_pc = "done" => e_yielded = PresentInfos(e_entries, 1)

-----------------------------------------------------------------------------
(***************************************************************************)
(* Properties of the report-descriptor scanner and of the DeviceInfo lists. *)
(***************************************************************************)

\* C21: a successful query of one hidraw entry never returns an empty list:
\* when the report descriptor is unreadable or its scan yields no pair, the
\* list is the one DeviceInfo with usage_page = 0 and usage_id = 0.
C21_NeverEmptyList ==
    (hd_target = "hidraw" /\ hd_query # "none") =>
        /\ hd_infos # <<>>
        /\ (hd_query = "unreadable" \/ usages(hd_bytes) = <<>>) => hd_infos = <<<<0, 0>>>>

\* C22: in the list of DeviceInfo produced for one DeviceId the pairs
\* (usage_page, usage_id) are pairwise distinct.
C22_PairsDistinct ==
    hd_query # "none" =>
        \A i, j \in 1..Len(hd_infos) : i # j => hd_infos[i] # hd_infos[j]

\* The size in bytes of the item whose key is at position pos, as the key
\* (and the length byte of a long item) declares it.
ItemSize(bytes, pos) ==
    IF bytes[pos + 1] \div 16 = 15
    THEN (IF pos + 1 < Len(bytes) THEN 3 + bytes[pos + 2] ELSE 3)
    ELSE 1 + (IF bytes[pos + 1] % 4 = 3 THEN 4 ELSE bytes[pos + 1] % 4)

\* The tag and type of a short item, 0 for a long item.
ItemKind(bytes, pos) ==
    IF bytes[pos + 1] \div 16 = 15 THEN 0 ELSE bytes[pos + 1] - (bytes[pos + 1] % 4)

\* Where the complete items of the descriptor end.
RECURSIVE CompleteEnd(_, _)
CompleteEnd(bytes, pos) ==
    IF pos >= Len(bytes) \/ pos + ItemSize(bytes, pos) > Len(bytes) THEN pos
    ELSE CompleteEnd(bytes, pos + ItemSize(bytes, pos))

\* The descriptor ends in the middle of an item.
Truncated(bytes) == CompleteEnd(bytes, 0) < Len(bytes)

\* The items from pos on, at nesting depth depth, pending telling whether a
\* Usage is set: ok when every item is complete, every End Collection
\* closes a Collection, every Collection is closed and every Collection at
\* depth 0 has a Usage; top counts the Collections at depth 0.
RECURSIVE ScanItems(_, _, _, _)
ScanItems(bytes, pos, depth, pending) ==
    IF pos >= Len(bytes) THEN [ok |-> depth = 0, top |-> 0]
    ELSE IF pos + ItemSize(bytes, pos) > Len(bytes) THEN [ok |-> FALSE, top |-> 0]
    ELSE LET kind == ItemKind(bytes, pos)
             next == pos + ItemSize(bytes, pos)
         IN  IF kind = 8 THEN ScanItems(bytes, next, depth, TRUE)
             ELSE IF kind = 160
             THEN [ok |-> ScanItems(bytes, next, depth + 1, FALSE).ok /\ (depth = 0 => pending),
                   top |-> ScanItems(bytes, next, depth + 1, FALSE).top
                               + (IF depth = 0 THEN 1 ELSE 0)]
             ELSE IF kind = 192
             THEN (IF depth = 0 THEN [ok |-> FALSE, top |-> 0]
                   ELSE ScanItems(bytes, next, depth - 1, FALSE))
             ELSE IF kind \in {128, 144, 176} THEN ScanItems(bytes, next, depth, FALSE)
             ELSE ScanItems(bytes, next, depth, pending)

\* A well-formed descriptor: complete items, balanced collections, at least
\* one top-level collection, each with its Usage.
WellFormed(bytes) ==
    ScanItems(bytes, 0, 0, FALSE).ok /\ ScanItems(bytes, 0, 0, FALSE).top >= 1

\* C23: for a well-formed descriptor usages() yields exactly one pair per
\* top-level collection, and none for a nested collection.
C23_OnePairPerTopLevelCollection ==
    (hd_state = "done" /\ WellFormed(hd_bytes)) =>
        Len(hd_out) = ScanItems(hd_bytes, 0, 0, FALSE).top

\* C24: for every byte sequence the iteration neither panics nor runs on:
\* every item processed advanced the cursor by at least one byte, so there
\* are at most len(bytes) items and at most len(bytes) pairs.
C24_NeverPanicsAndTerminates ==
    /\ hd_state # "panicked"
    /\ hd_items <= hd_pos
    /\ hd_items <= Len(hd_bytes)
    /\ Len(hd_out) <= Len(hd_bytes)

\* C24 witness: an iteration has ended after yielding a pair, on a
\* descriptor whose last item declares more data than there is, so the
\* cursor was moved past the end.
C24_Witness ==
    /\ hd_state = "done"
    /\ hd_out # <<>>
    /\ hd_pos > Len(hd_bytes)

\* C25: a descriptor that is one top-level collection with Usage Page p and
\* Usage u yields exactly (p, u), and the concatenation of two yields both
\* pairs, in descriptor order, and nothing else.
C25_TopLevelCollectionsInOrder ==
    hd_state = "done" =>
        /\ \A c \in TopLevelCollections : hd_bytes = c.bytes => hd_out = <<c.pair>>
        /\ \A c \in TopLevelCollections, d \in TopLevelCollections :
               hd_bytes = c.bytes \o d.bytes => hd_out = <<c.pair, d.pair>>

\* a is a prefix of b.
IsPrefix(a, b) == Len(a) <= Len(b) /\ SubSeq(b, 1, Len(a)) = a

\* C26: when the descriptor ends in the middle of an item, the iteration
\* ends and no pair is emitted because of that item: the pairs yielded are
\* among those of the descriptor without it.
C26_TruncatedItemEmitsNothing ==
    (hd_state = "done" /\ Truncated(hd_bytes)) =>
        IsPrefix(hd_out, usages(SubSeq(hd_bytes, 1, CompleteEnd(hd_bytes, 0))))

\* The descriptor has no Collection item from pos on.
RECURSIVE NoCollection(_, _)
NoCollection(bytes, pos) ==
    IF pos >= Len(bytes) THEN TRUE
    ELSE ItemKind(bytes, pos) # 160 /\ NoCollection(bytes, pos + ItemSize(bytes, pos))

\* The pair of the Usage that is set and not cleared at the end of input,
\* if any: Usage Page and Usage items set, main items clear the Usage, also
\* a main item whose data is cut off by the end of input.
RECURSIVE PendingAtEnd(_, _, _, _)
PendingAtEnd(bytes, pos, page, usage) ==
    IF pos >= Len(bytes)
    THEN (IF usage = <<>> THEN <<>> ELSE <<<<page, usage[1]>>>>)
    ELSE IF pos + ItemSize(bytes, pos) > Len(bytes)
    THEN (IF usage = <<>> \/ ItemKind(bytes, pos) \in {128, 144, 176, 192}
          THEN <<>> ELSE <<<<page, usage[1]>>>>)
    ELSE LET kind == ItemKind(bytes, pos)
             next == pos + ItemSize(bytes, pos)
             value == from_le_bytes(bytes, pos + 1, ItemSize(bytes, pos) - 1) % 65536
         IN  IF kind = 4 THEN PendingAtEnd(bytes, next, value, usage)
             ELSE IF kind = 8 THEN PendingAtEnd(bytes, next, page, <<value>>)
             ELSE IF kind \in {128, 144, 160, 176, 192}
             THEN PendingAtEnd(bytes, next, page, <<>>)
             ELSE PendingAtEnd(bytes, next, page, usage)

\* C27: a descriptor without a Collection item yields the pair of the
\* Usage pending at the end of input exactly once, and nothing when no
\* Usage is pending.
C27_PendingUsageAtEnd ==
    (hd_state = "done" /\ NoCollection(hd_bytes, 0)) =>
        hd_out = PendingAtEnd(hd_bytes, 0, 0, <<>>)

-----------------------------------------------------------------------------
(***************************************************************************)
(* Properties of the uevent parser.                                        *)
(***************************************************************************)

\* C28: UEvent::parse is total: for every datagram, of any length and with
\* either frame, any magic and any offset field, it returns a UEvent or an
\* error and never panics.
C28_ParseIsTotal ==
    ue_state = "parsed" => ue_result.kind \in {"Ok", "Err"}

\* The action the ACTION value stands for: Add for add, Remove for remove,
\* Other with the value for anything else.
ActionOf(value) ==
    CASE value = Str_add -> [tag |-> "Add", value |-> <<>>]
      [] value = Str_remove -> [tag |-> "Remove", value |-> <<>>]
      [] OTHER -> [tag |-> "Other", value |-> value]

\* The payload is kernel-framed and each of its lines is KEY=VALUE.
KernelKeyValueLines ==
    /\ ue_shape.frame \in {"kernel", "kernel_short"}
    /\ ue_shape.extra \in {<<>>, <<Str_SEQNUM_1>>, <<Str_NAME_invalid>>}

\* What the payload parses to: the event with the action of its ACTION
\* value and the values of SUBSYSTEM and DEVPATH when the three keys are
\* there, an error when one of them is missing.
KernelEventParsed ==
    IF ue_shape.action # <<>> /\ ue_shape.subsystem # <<>> /\ ue_shape.dev_path # <<>>
    THEN ue_result = [kind |-> "Ok", action |-> ActionOf(ue_shape.action[1]),
                      subsystem |-> ue_shape.subsystem[1],
                      dev_path |-> ue_shape.dev_path[1]]
    ELSE ue_result.kind = "Err"

\* C29 as stated: a kernel-framed payload, 'action@devpath\0' followed by
\* KEY=VALUE lines, parses to the event with the action of its ACTION value
\* and the values of SUBSYSTEM and DEVPATH when the three keys are there, and
\* to an error when one of them is missing.
C29_KernelEventParsed ==
    (ue_state = "parsed" /\ KernelKeyValueLines) => KernelEventParsed

\* The datagram is text of at least 32 bytes: every byte is below 0x80.
TextOfMinimumLength ==
    /\ Len(ue_bytes) >= 32
    /\ \A i \in 1..Len(ue_bytes) : ue_bytes[i] < 128

\* C29: a kernel-framed payload of at least 32 bytes that is UTF-8,
\* 'action@devpath\0' followed by KEY=VALUE lines, parses to the event with
\* the action of its ACTION value and the values of SUBSYSTEM and DEVPATH
\* when the three keys are there, and to an error when one of them is
\* missing.
C29_KernelTextEventParsed ==
    (ue_state = "parsed" /\ KernelKeyValueLines /\ TextOfMinimumLength) => KernelEventParsed

\* "add@/devices/foo\0ACTION=add\0SUBSYSTEM=hidraw\0DEVPATH=/devices/foo\0"
ExampleEvent ==
    <<97, 100, 100, 64, 47, 100, 101, 118, 105, 99, 101, 115, 47, 102, 111, 111, 0, 65, 67,
    84, 73, 79, 78, 61, 97, 100, 100, 0, 83, 85, 66, 83, 89, 83, 84, 69, 77, 61, 104, 105,
    100, 114, 97, 119, 0, 68, 69, 86, 80, 65, 84, 72, 61, 47, 100, 101, 118, 105, 99, 101,
    115, 47, 102, 111, 111, 0>>

\* The example payload has been parsed to {Add, hidraw, /devices/foo}.
C29_Witness ==
    /\ ue_state = "parsed"
    /\ ue_bytes = ExampleEvent
    /\ ue_result = [kind |-> "Ok", action |-> [tag |-> "Add", value |-> <<>>],
                    subsystem |-> Str_hidraw, dev_path |-> Str_devices_foo]

\* The datagram starts with "libudev\0" and its bytes 8..12 are not the
\* magic in big-endian order.
WrongMagic ==
    /\ Len(ue_bytes) >= 12
    /\ SubSeq(ue_bytes, 1, 8) = Str_libudev
    /\ SubSeq(ue_bytes, 9, 12) # UDEV_MONITOR_MAGIC

\* C30: a udev-framed payload whose magic at bytes 8..12 is not 0xFEEDCAFE
\* in big-endian order is rejected with an error, whatever the rest holds.
C30_WrongMagicRejected ==
    (ue_state = "parsed" /\ WrongMagic) => ue_result.kind = "Err"

\* A full datagram with the magic in little-endian order, an offset beyond
\* its end and all three keys has been rejected.
C30_Witness ==
    /\ ue_state = "parsed"
    /\ WrongMagic
    /\ Len(ue_bytes) >= 32
    /\ ue_shape.off = <<0, 1, 0, 0>>
    /\ ue_shape.magic = <<254, 202, 237, 254>>
    /\ ue_shape.subsystem # <<>> /\ ue_shape.dev_path # <<>>
    /\ ue_result.kind = "Err"

\* The first line of the datagram, the bytes before its first NUL, holds
\* no '@', and the datagram is not udev-framed.
FirstLineWithoutAt ==
    LET nul == position(ue_bytes, 0, 1)
        line == IF nul = 0 THEN ue_bytes ELSE SubSeq(ue_bytes, 1, nul - 1)
    IN  /\ ~(Len(ue_bytes) >= 8 /\ SubSeq(ue_bytes, 1, 8) = Str_libudev)
        /\ \A i \in 1..Len(line) : line[i] # 64

\* C31: a kernel-framed payload whose first line holds no '@' is rejected
\* with an error, even when '@' occurs later in the datagram.
C31_FirstLineNeedsAt ==
    (ue_state = "parsed" /\ FirstLineWithoutAt) => ue_result.kind = "Err"

\* The datagram parsed as a uevent of the hidraw subsystem with the action
\* add or remove.
HidrawAddOrRemove ==
    /\ ue_result.kind = "Ok"
    /\ ue_result.subsystem = Str_hidraw
    /\ ue_result.action.tag \in {"Add", "Remove"}

\* "/sys/" joined with DEVPATH without its leading '/'.
RebasedDevPath ==
    Str_sys \o (IF ue_result.dev_path # <<>> /\ ue_result.dev_path[1] = 47
                THEN Tail(ue_result.dev_path) ELSE ue_result.dev_path)

\* C32: the watch stream yields an event for a datagram exactly when it
\* parses as a hidraw uevent with the action add (Connected) or remove
\* (Disconnected), with DEVPATH rebased onto /sys/ as the id; for every
\* other datagram it yields nothing and goes on waiting.
C32_EventExactlyForHidrawAddRemove ==
    ue_state = "looped" =>
        IF HidrawAddOrRemove
        THEN ue_event = [kind |-> IF ue_result.action.tag = "Add" THEN "Connected"
                                  ELSE "Disconnected",
                         id |-> RebasedDevPath]
        ELSE ue_event = WatchContinue

-----------------------------------------------------------------------------
(***************************************************************************)
(* Properties of writing a report on macOS.                                *)
(***************************************************************************)

\* C33: for every caller buffer, write_output_report / write_feature_report
\* calls IOHIDDeviceSetReport with the report id buf[0] and with buf[1..]
\* as data when buf[0] is 0x00, the whole buffer otherwise, and returns Ok,
\* Disconnected or a Message error.
C33_SetReportArguments ==
    wr_state \in {"returned", "panicked"} =>
        /\ wr_result \in {"Ok", "Disconnected", "Message"}
        /\ Len(wr_call) = 1
        /\ wr_call[1].report_type = wr_type
        /\ wr_call[1].report_id = Head(wr_buf)
        /\ wr_call[1].data = (IF Head(wr_buf) = 0 THEN Tail(wr_buf) ELSE wr_buf)

-----------------------------------------------------------------------------
(***************************************************************************)
(* Properties of TryFlattenIter.                                           *)
(***************************************************************************)

\* What a sequence of Result<collection, E> flattens to: Err(e) for every
\* Err(e), Ok(x) for each element x of every Ok collection, in order.
RECURSIVE Flattened(_)
Flattened(items) ==
    IF items = <<>> THEN <<>>
    ELSE (IF Head(items).kind = "Err"
          THEN <<[kind |-> "Err", val |-> Head(items).vals[1]]>>
          ELSE [i \in 1..Len(Head(items).vals) |->
                    [kind |-> "Ok", val |-> Head(items).vals[i]]])
             \o Flattened(Tail(items))

\* s is the start of t.
StartOf(s, t) == Len(s) <= Len(t) /\ s = SubSeq(t, 1, Len(s))

\* C34: TryFlattenIter yields, in input order, Err(e) for every Err(e) item
\* and Ok(x) for each element of every Ok collection: what it has yielded is
\* always the start of the flattened input, and all of it once it has ended.
C34_FlattenKeepsEveryItem ==
    /\ tf_state = "iterating" => StartOf(tf_out, Flattened(tf_input))
    /\ tf_state = "ended" => tf_out = Flattened(tf_input)

\* The iteration over the input of the test has ended with its ten items.
C34_Witness ==
    /\ tf_state = "ended"
    /\ tf_input = test_try_flatten_iter_input
    /\ Len(tf_out) = 10
    /\ tf_out[1] = [kind |-> "Err", val |-> 0]
    /\ tf_out[10] = [kind |-> "Err", val |-> 9]

-----------------------------------------------------------------------------
(***************************************************************************)
(* Properties of the WinRT reader's copy into the caller's buffer.         *)
(***************************************************************************)

\* The report without its leading byte when that byte is 0x00.
PayloadOf(report) == IF Head(report) = 0 THEN Tail(report) ELSE report

\* C40: for every report of length n >= 1 and every caller buffer of length
\* m >= 0, read_input_report does not panic and returns min(payload_len, m),
\* where payload is the report without a leading 0x00, with that many
\* payload bytes at the front of the caller's buffer.
C40_ReturnsPayloadPrefix ==
    (rr_state \in {"returned", "panicked"} /\ Len(rr_report) >= 1) =>
        /\ rr_result.kind = "Ok"
        /\ rr_result.n = Min(Len(PayloadOf(rr_report)), Len(rr_buf))
        /\ SubSeq(rr_buf, 1, rr_result.n) = SubSeq(PayloadOf(rr_report), 1, rr_result.n)

-----------------------------------------------------------------------------
(***************************************************************************)
(* The registrations of a HandleWaiter.                                    *)
(***************************************************************************)

\* The poll is about to call unregister: the wait it registered completed.
AboutToUnregister == f_pc = "registered" /\ complete

\* The last HandleFuture is gone and never returned Ready: it was dropped
\* before completing (or no future was made yet).
DroppedBeforeCompleting == f_state = "none" /\ wait_result \in {"none", "Pending"}

\* C37: unregister is only called with a wait registered, and no
\* registration remains once a HandleFuture has completed with Ok or has
\* been dropped before completing, whatever RegisterWaitForSingleObject and
\* UnregisterWaitEx return.
C37_RegistrationDiscipline ==
    /\ AboutToUnregister => registration # "invalid"
    /\ wait_result = "Ok" => registration = "invalid"
    /\ DroppedBeforeCompleting => registration = "invalid"

-----------------------------------------------------------------------------
(***************************************************************************)
(* The finality of Disconnected on a macOS reader.                         *)
(***************************************************************************)

\* A poll of the macOS reader returns Disconnected in this step.
ReturnsDisconnected ==
    /\ r_target = "macos"
    /\ c_pc = "popped_none"
    /\ c_pc' = "none"
    /\ last_result'.kind = "Disconnected"

\* C38: on a macOS reader Disconnected is final: a read returns
\* Disconnected only when no received report remains queued, so that no
\* later read can return a report.
C38_DisconnectedIsFinal ==
    [][ReturnsDisconnected => full_buffers' = <<>>]_vars

-----------------------------------------------------------------------------
(***************************************************************************)
(* The pointer-to-id map of the macOS manager callbacks.                   *)
(***************************************************************************)

\* The map holds exactly the pointers whose arrival was recorded with an id
\* and that have not been removed since, each with the id of its Connected.
MapIsRecordedAndNotRemoved ==
    \A p \in DevPtrs :
        devices[p] = IF attached[p].id # None /\ attached[p].ok
                     THEN attached[p].id ELSE None

\* This step pushes event onto the queue of watcher w.
Broadcast(w, event) ==
    /\ w \in live /\ w \in live'
    /\ queues'[w].items # queues[w].items
    /\ Len(queues'[w].items) >= Len(queues[w].items)
    /\ queues'[w].items[Len(queues'[w].items)] = event

\* A Disconnected(id) is broadcast only by the removal of a pointer that the
\* map holds with that id, and the removal takes the pointer out of the map.
DisconnectedOnlyForRecorded ==
    \A w \in WatcherIds, id \in DevIds :
        Broadcast(w, Disconnected(id)) =>
            \E p \in DevPtrs :
                /\ attached[p] = [id |-> id, ok |-> TRUE]
                /\ devices[p] = id
                /\ devices'[p] = None

\* A removal of a pointer that is not in the map changes nothing.
RepeatedRemovalIsSilent ==
    \A p \in DevPtrs :
        removed_callback_repeated(p) => UNCHANGED <<devices, queues>>

\* C39: on macOS the device map holds exactly the pointers that were recorded
\* by added_callback and not removed since; Disconnected(id) is broadcast
\* only for such a pointer, with the id of its Connected event, and takes it
\* out of the map; a repeated removal of the pointer broadcasts nothing.
C39_MapTracksRecordedDevices ==
    /\ [](w_target = "macos" => MapIsRecordedAndNotRemoved)
    /\ [][w_target = "macos" =>
            DisconnectedOnlyForRecorded /\ RepeatedRemovalIsSilent]_vars

\* A watcher holds the Disconnected of a device that was recorded and then
\* removed, the map is empty again, and the other pointer was never recorded.
C39_Witness ==
    /\ w_target = "macos"
    /\ \E w \in live, i \in 1..QueueCap :
        /\ i <= Len(queues[w].items)
        /\ queues[w].items[i].kind = "Disconnected"
    /\ \A p \in DevPtrs : devices[p] = None
    /\ \E p \in DevPtrs : attached[p].id # None /\ ~attached[p].ok

====
